---- MODULE Spec2Model ----
(***************************************************************************)
(* The pump detector: the active_trades, trade_history and score_history   *)
(* tables of core/database.py, the trade monitor of core/scanner.py        *)
(* (Scanner._check_trade, add_trade, close_trade), the composite score of  *)
(* core/scorer.py and the scan cycle Scanner.run_once as run by the        *)
(* continuous loop and by the thread of the Telegram /scan command.        *)
(*                                                                         *)
(* REAL columns are held in fixed point.  Prices, USD amounts and          *)
(* percentages are integers; fractions of a position are held in           *)
(* hundredths (remaining_fraction 1.0 is 100); a composite score is held   *)
(* in units of 1 / ScoreOne and a normalized signal score in tenths.  In   *)
(* the trade monitor and the scorer the input sets are chosen so that      *)
(* every division the code performs on a reachable state is exact and no   *)
(* rounding meets a tie.  The levels calculator counts prices in units of  *)
(* 1e-8 / PriceOne and rounds to 8 decimals as the code does;              *)
(* piecewise_lerp counts in units of 1 / LerpOne.  Time is counted in      *)
(* units of 1800 seconds.                                                  *)
(*                                                                         *)
(* Spec, SpecDegrade, SpecStatus and SpecAdjust run the trade operations   *)
(* one after another; SpecScore and SpecRaise run the scorer, SpecPipeline *)
(* whole token pipelines, SpecLevels the levels calculator and SpecLerp    *)
(* piecewise_lerp; SpecScan runs one scan cycle of one thread with failing *)
(* collaborators and sinks; SpecConc runs the loop and one /scan thread    *)
(* side by side, SpecClose the loop and a /close on the bot thread.        *)
(***************************************************************************)
EXTENDS Integers, Sequences, FiniteSets, TLC

VARIABLES
    active_trades,   \* rows of table active_trades
    trade_history,   \* rows of table trade_history, in insertion order
    score_history,   \* rows of table score_history, in insertion order
    next_id,         \* AUTOINCREMENT counter of active_trades
    clock,           \* time.time(), in units of 1800 s
    notes,           \* notifications handed to the alert sinks by the last operation
    last,            \* the last operation: its name, arguments and return value
    tp_sent,         \* <<trade id, level>> of every TP-hit notification sent so far
    status_sent,     \* <<trade id, hour>> of every status notification sent so far
    steps,           \* operations performed so far
    pc,              \* where each thread stands in run_once / _monitor_trades
    locals,          \* the locals of each thread's run_once / _monitor_trades
    bootstrapped,    \* Scanner._bootstrapped
    deep_history,    \* symbols whose stored open-interest history spans 48 h
    backfills        \* per symbol, the bootstrap_token calls that have completed

scan_vars == <<pc, locals, bootstrapped, deep_history, backfills>>

vars == <<active_trades, trade_history, score_history, next_id, clock,
          notes, last, tp_sent, status_sent, steps, scan_vars>>

\* Optional values: Python's None is the empty set, a value x is {x}
None == {}
Some(x) == {x}
Val(o) == CHOOSE x \in o : TRUE

\* ---------------------------------------------------------------- bounds
MaxSteps == 5        \* operations in one run
MaxTrades == 2       \* add_trade calls in one run
MaxClock == 2        \* the run lasts MaxClock * 1800 s
MaxScoreRows == 2    \* score_history rows written in one run
MaxStatusClock == 5  \* a run of SpecStatus lasts MaxStatusClock * 1800 s
MaxCycles == 2       \* run_once / _monitor_trades calls of run_continuous
MaxScans == 1        \* /scan commands
MaxPipelineRows == 3 \* score_history rows written by token pipelines

\* ----------------------------------------------------------------- units
FracOne == 100       \* remaining_fraction REAL DEFAULT 1.0
ScoreOne == 10000000 \* one point of a composite score
NsOne == 10          \* one point of a normalized signal score

\* ---------------------------------------------------------------- inputs
RawSymbols == {"btc", "ETH"}
EntryPrices == {100, 200}
Sizes == {10000}
StopPcts == {7}
LivePrices == {93, 107, 115, 135, 220}
ExitPrices == {120}
CloseLivePrices == {107}
ScoreInputs == {55 * ScoreOne, 80 * ScoreOne}
DegradeScores == {55 * ScoreOne, 60 * ScoreOne, 80 * ScoreOne}
DegradePrices == {93, 107}
StatusPrices == {107}
Waits == {1, 2, 3}

\* ------------------------------------------------------------- constants
STOP_LOSS_TRAIL == <<
    [price_move_pct |-> 5,  stop_at_pct |-> 0],
    [price_move_pct |-> 10, stop_at_pct |-> 5],
    [price_move_pct |-> 15, stop_at_pct |-> 10],
    [price_move_pct |-> 25, stop_at_pct |-> 18],
    [price_move_pct |-> 40, stop_at_pct |-> 30],
    [price_move_pct |-> 60, stop_at_pct |-> 45] >>

TAKE_PROFIT_LEVELS_all_priced == <<
    [level |-> 1, pct |-> Some(15), sell_fraction |-> 25],
    [level |-> 2, pct |-> Some(30), sell_fraction |-> 25],
    [level |-> 3, pct |-> Some(50), sell_fraction |-> 25],
    [level |-> 4, pct |-> Some(100), sell_fraction |-> 25] >>

TAKE_PROFIT_LEVELS == <<
    [level |-> 1, pct |-> Some(15), sell_fraction |-> 25],
    [level |-> 2, pct |-> Some(30), sell_fraction |-> 25],
    [level |-> 3, pct |-> Some(50), sell_fraction |-> 25],
    [level |-> 4, pct |-> None,     sell_fraction |-> 25] >>

\* --------------------------------------------------------------- helpers
Max(a, b) == IF a >= b THEN a ELSE b

\* f"tp{tl}_hit"
TpKey(tl) == CASE tl = 1 -> "tp1_hit"
               [] tl = 2 -> "tp2_hit"
               [] tl = 3 -> "tp3_hit"
               [] tl = 4 -> "tp4_hit"

\* sym.upper().strip()
Upper(sym) == IF sym = "btc" THEN "BTC" ELSE sym

Symbols == {Upper(s) : s \in RawSymbols}

\* metadata is a JSON object, held as a set of <<key, value>> pairs
MetaGet(meta, key, default) ==
    IF \E p \in meta : p[1] = key
    THEN (CHOOSE p \in meta : p[1] = key)[2]
    ELSE default

MetaPut(meta, key, value) ==
    {p \in meta : p[1] # key} \cup {<<key, value>>}

\* ------------------------------------------------------------- database
\* SELECT * FROM active_trades WHERE symbol=?  (fetchone)
get_active_trade(table, symbol) ==
    IF \E r \in table : r.symbol = symbol
    THEN Some(CHOOSE r \in table : r.symbol = symbol)
    ELSE None

\* Mutant of stop_price: the stop is placed above the entry
stop_price_above(entry_price, stop_loss_pct) ==
    (entry_price * (100 + stop_loss_pct)) \div 100

\* stop_price = entry_price * (1 - stop_loss_pct / 100)
stop_price(entry_price, stop_loss_pct) ==
    (entry_price * (100 - stop_loss_pct)) \div 100

\* The row that add_trade inserts
new_trade_row(id, symbol, entry_price, position_size_usd, stop_loss_pct, now) ==
    [id |-> id,
     symbol |-> symbol,
     entry_price |-> entry_price,
     position_size_usd |-> position_size_usd,
     stop_loss_pct |-> stop_loss_pct,
     current_stop_price |-> stop_price(entry_price, stop_loss_pct),
     entry_timestamp |-> now,
     tp1_hit |-> 0, tp2_hit |-> 0, tp3_hit |-> 0, tp4_hit |-> 0,
     remaining_fraction |-> FracOne,
     realized_pnl |-> 0,
     last_notified_stop_pct |-> 0,
     last_score |-> 0,
     metadata |-> {}]

\* Mutant of add_trade_db: a plain INSERT on a table without the UNIQUE key
add_trade_db_insert(table, id, symbol, entry_price, position_size_usd, stop_loss_pct, now) ==
    table \cup
    {new_trade_row(id, symbol, entry_price, position_size_usd, stop_loss_pct, now)}

\* Database.add_trade.  INSERT OR REPLACE INTO active_trades: the
\* UNIQUE(symbol) conflict deletes the old row before the new one is inserted
add_trade_db(table, id, symbol, entry_price, position_size_usd, stop_loss_pct, now) ==
    {r \in table : r.symbol # symbol} \cup
    {new_trade_row(id, symbol, entry_price, position_size_usd, stop_loss_pct, now)}

\* UPDATE active_trades SET k=? ... WHERE symbol=?   (updates: a record)
update_trade(table, symbol, updates) ==
    {IF r.symbol = symbol
     THEN [k \in DOMAIN r |-> IF k \in DOMAIN updates THEN updates[k] ELSE r[k]]
     ELSE r : r \in table}

\* Mutant of total_pnl: the whole position is priced at the exit
total_pnl_whole(trade, exit_price) ==
    trade.realized_pnl
    + (FracOne * trade.position_size_usd * (exit_price - trade.entry_price))
      \div (FracOne * trade.entry_price)

\* total_pnl = realized_pnl + pnl_remaining in Database.close_trade
total_pnl(trade, exit_price) ==
    trade.realized_pnl
    + (trade.remaining_fraction * trade.position_size_usd
         * (exit_price - trade.entry_price))
      \div (FracOne * trade.entry_price)

\* Database.close_trade: the new tables and the returned result.  Of the
\* trade_history row the columns entry_timestamp, exit_timestamp,
\* duration_hours, max_gain_pct and metadata are left out.
close_trade_db(table, history, symbol, exit_price, exit_reason, now) ==
    LET found == get_active_trade(table, symbol) IN
    IF found = None
    THEN [active |-> table, history |-> history, result |-> None]
    ELSE
      LET trade == Val(found)
          pnl == total_pnl(trade, exit_price)
          row == [symbol |-> symbol,
                  entry_price |-> trade.entry_price,
                  exit_price |-> exit_price,
                  position_size_usd |-> trade.position_size_usd,
                  realized_pnl |-> pnl,
                  exit_reason |-> exit_reason]
      IN [active |-> {r \in table : r.symbol # symbol},
          history |-> Append(history, row),
          result |-> Some([symbol |-> symbol,
                           entry_price |-> trade.entry_price,
                           exit_price |-> exit_price,
                           position_size_usd |-> trade.position_size_usd,
                           total_pnl |-> pnl,
                           exit_reason |-> exit_reason])]

\* Database.store_score; the columns signal_scores, bonuses_applied and
\* penalties_applied are left out
store_score(scores, symbol, composite_score, classification, now) ==
    Append(scores, [timestamp |-> now, symbol |-> symbol,
                    composite_score |-> composite_score,
                    classification |-> classification])

\* Database.get_latest_score: ORDER BY timestamp DESC LIMIT 1.  Rows that
\* share a clock reading were written in insertion order.
get_latest_score(scores, symbol) ==
    LET idx == {i \in 1..Len(scores) : scores[i].symbol = symbol} IN
    IF idx = {} THEN None
    ELSE Some(scores[CHOOSE i \in idx : \A j \in idx :
                  \/ scores[j].timestamp < scores[i].timestamp
                  \/ (scores[j].timestamp = scores[i].timestamp /\ j <= i)])

\* ---------------------------------------------------------- trade monitor
\* pcp >= pct, where pcp = ((cp - ep) / ep) * 100 and ep > 0
GainAtLeast(cp, ep, pct) == (cp - ep) * 100 >= pct * ep

\* Mutant of tp_skip: a level that has fired is evaluated again
tp_skip_unset_only(trade, tp) == tp.pct = None

\* trade.get(tk) or tpct is None: the level is skipped
tp_skip(trade, tp) == trade[TpKey(tp.level)] # 0 \/ tp.pct = None

\* Mutant of tp_remaining: the sold fraction is added back
tp_remaining_added(rem, sf) == rem + sf

\* nr = rem - sf
tp_remaining(rem, sf) == rem - sf

\* The take-profit loop of _check_trade, from level i on.  st.trade is the
\* local dict, st.table the active_trades table, st.notes the sinks' input;
\* rem is the remaining_fraction read at the top of the tick.
RECURSIVE take_profits(_, _, _, _)
take_profits(st, i, rem, cp) ==
    IF i > Len(TAKE_PROFIT_LEVELS) THEN st
    ELSE
      LET tp == TAKE_PROFIT_LEVELS[i]
          tl == tp.level
          tk == TpKey(tl)
          trade == st.trade
          ep == trade.entry_price
          ps == trade.position_size_usd
      IN
      IF tp_skip(trade, tp)
      THEN take_profits(st, i + 1, rem, cp)
      ELSE IF GainAtLeast(cp, ep, Val(tp.pct))
      THEN
        LET sf == tp.sell_fraction
            chunk == (sf * ps * (cp - ep)) \div (FracOne * ep)
            nr == tp_remaining(rem, sf)
            nrp == trade.realized_pnl + chunk
            upd == [k \in {tk, "remaining_fraction", "realized_pnl"} |->
                      CASE k = tk -> 1
                        [] k = "remaining_fraction" -> Max(0, nr)
                        [] k = "realized_pnl" -> nrp]
            loc == [k \in {tk, "remaining_fraction", "realized_pnl"} |->
                      CASE k = tk -> 1
                        [] k = "remaining_fraction" -> nr
                        [] k = "realized_pnl" -> nrp]
        IN take_profits(
             [trade |-> [k \in DOMAIN trade |->
                           IF k \in DOMAIN loc THEN loc[k] ELSE trade[k]],
              table |-> update_trade(st.table, trade.symbol, upd),
              notes |-> Append(st.notes,
                          [kind |-> "tp_hit", symbol |-> trade.symbol,
                           id |-> trade.id, tp_level |-> tl,
                           tp_pct |-> Val(tp.pct), current_price |-> cp,
                           pnl_chunk |-> chunk, remaining_pct |-> nr])],
             i + 1, rem, cp)
      ELSE take_profits(st, i + 1, rem, cp)

\* Mutant of rung_applies: the trigger has to be exceeded
rung_applies_strict(tr, nsp, cp, ep) ==
    (cp - ep) * 100 > tr.price_move_pct * ep /\ tr.stop_at_pct > nsp

\* pcp >= tr["price_move_pct"] and tr["stop_at_pct"] > nsp
rung_applies(tr, nsp, cp, ep) ==
    GainAtLeast(cp, ep, tr.price_move_pct) /\ tr.stop_at_pct > nsp

\* The loop over STOP_LOSS_TRAIL, from rung i on: the final nsp and ssp
RECURSIVE trail_ladder(_, _, _, _, _)
trail_ladder(i, nsp, ssp, cp, ep) ==
    IF i > Len(STOP_LOSS_TRAIL) THEN [nsp |-> nsp, ssp |-> ssp]
    ELSE
      LET tr == STOP_LOSS_TRAIL[i] IN
      IF rung_applies(tr, nsp, cp, ep)
      THEN trail_ladder(i + 1, tr.stop_at_pct,
                        (ep * (100 + tr.stop_at_pct)) \div 100, cp, ep)
      ELSE trail_ladder(i + 1, nsp, ssp, cp, ep)

\* Mutant of ratchets: an unchanged trail level is written and notified again
ratchets_or_same(nsp, last_notified) == nsp >= last_notified

\* nsp > trade.get("last_notified_stop_pct", 0)
ratchets(nsp, last_notified) == nsp > last_notified

\* The stop-trail step of _check_trade
stop_trail(st, cs, cp) ==
    LET trade == st.trade
        t == trail_ladder(1, trade.last_notified_stop_pct, cs, cp, trade.entry_price)
    IN
    IF ratchets(t.nsp, trade.last_notified_stop_pct)
    THEN [st EXCEPT
            !.table = update_trade(st.table, trade.symbol,
                        [current_stop_price |-> t.ssp,
                         last_notified_stop_pct |-> t.nsp]),
            !.notes = Append(st.notes,
                        [kind |-> "stop_update", symbol |-> trade.symbol,
                         new_stop_price |-> t.ssp, new_stop_pct |-> t.nsp,
                         current_price |-> cp, reason |-> "Price"])]
    ELSE st

\* The signal-degradation step of _check_trade
signal_degradation(st, latest_score, cp) ==
    IF latest_score # None
    THEN
      LET csc == Val(latest_score).composite_score
          psc == st.trade.last_score
          st1 == IF psc > 0 /\ csc < psc - 20 * ScoreOne
                 THEN [st EXCEPT !.notes = Append(st.notes,
                            [kind |-> "signal_degradation",
                             symbol |-> st.trade.symbol,
                             old_score |-> psc, new_score |-> csc,
                             current_price |-> cp])]
                 ELSE st
      IN [st1 EXCEPT !.table =
              update_trade(st1.table, st.trade.symbol, [last_score |-> csc])]
    ELSE st

\* Mutant of status_due: the stored marker is not consulted
status_due_any(ch, last_status_hour) == ch > 0

\* ch > meta.get("last_status_hour", -1) and ch > 0
status_due(ch, last_status_hour) == ch > last_status_hour /\ ch > 0

\* The hourly-status step of _check_trade; ch = int(hrs)
hourly_status(st, latest_score, cs, cp, now) ==
    LET trade == st.trade
        ch == ((now - trade.entry_timestamp) * 1800) \div 3600
        meta == trade.metadata
    IN
    IF status_due(ch, MetaGet(meta, "last_status_hour", -1))
    THEN [st EXCEPT
            !.notes = Append(st.notes,
                        [kind |-> "trade_status", symbol |-> trade.symbol,
                         current_price |-> cp,
                         realized_pnl |-> trade.realized_pnl,
                         remaining_pct |-> trade.remaining_fraction,
                         current_stop |-> cs, hours_in |-> ch,
                         score |-> IF latest_score # None
                                   THEN Val(latest_score).composite_score
                                   ELSE 0]),
            !.table = update_trade(st.table, trade.symbol,
                        [metadata |-> MetaPut(meta, "last_status_hour", ch)])]
    ELSE st

\* not cp: _live_price found no price
price_missing(cp) == cp = None \/ Val(cp) = 0

\* Mutant of stop_hit: a price equal to the stop does not stop out
stop_hit_below(cp, cs) == cp < cs

\* cp <= cs
stop_hit(cp, cs) == cp <= cs

\* _check_trade from the stop check on, with live price cp
priced_tick(table, history, scores, trade, cp, now) ==
    LET sym == trade.symbol
        rem == trade.remaining_fraction
        cs == trade.current_stop_price
    IN
    IF stop_hit(cp, cs)
    THEN LET c == close_trade_db(table, history, sym, cp, "stop_loss", now)
         IN [active |-> c.active, history |-> c.history,
             notes |-> IF c.result # None
                       THEN <<[kind |-> "trade_closed", symbol |-> sym,
                               result |-> Val(c.result),
                               reason |-> "STOP LOSS HIT"]>>
                       ELSE <<>>]
    ELSE
      LET st0 == [trade |-> trade, table |-> table, notes |-> <<>>]
          st1 == take_profits(st0, 1, rem, cp)
          st2 == stop_trail(st1, cs, cp)
          latest_score == get_latest_score(scores, sym)
          st3 == signal_degradation(st2, latest_score, cp)
          st4 == hourly_status(st3, latest_score, cs, cp, now)
      IN [active |-> st4.table, history |-> history, notes |-> st4.notes]

\* Mutant of check_trade: without a live price the tick goes on with the
\* entry price
check_trade_fallback(table, history, scores, trade, cp, now) ==
    IF trade.remaining_fraction <= 0
    THEN LET c == close_trade_db(table, history, trade.symbol,
                                 trade.entry_price, "fully_exited", now)
         IN [active |-> c.active, history |-> c.history, notes |-> <<>>]
    ELSE priced_tick(table, history, scores, trade,
                     IF price_missing(cp) THEN trade.entry_price ELSE Val(cp),
                     now)

\* Scanner._check_trade on the row `trade` read by get_active_trades, with
\* live price cp (None when _live_price finds none): the new tables and the
\* notifications sent
check_trade(table, history, scores, trade, cp, now) ==
    IF trade.remaining_fraction <= 0
    THEN LET c == close_trade_db(table, history, trade.symbol,
                                 trade.entry_price, "fully_exited", now)
         IN [active |-> c.active, history |-> c.history, notes |-> <<>>]
    ELSE IF price_missing(cp)
    THEN [active |-> table, history |-> history, notes |-> <<>>]
    ELSE priced_tick(table, history, scores, trade, Val(cp), now)

\* check_trade when the first sink call of the tick raises: the tables at
\* the moment of the call (the exception leaves _check_trade and is logged
\* by _monitor_trades); nothing is delivered
check_trade_raising(table, history, scores, trade, cp, now) ==
    IF trade.remaining_fraction <= 0 \/ price_missing(cp)
    THEN check_trade(table, history, scores, trade, cp, now)
    ELSE IF stop_hit(Val(cp), trade.current_stop_price)
    THEN LET c == close_trade_db(table, history, trade.symbol, Val(cp),
                                 "stop_loss", now)
         IN [active |-> c.active, history |-> c.history, notes |-> <<>>]
    ELSE
      LET sym == trade.symbol
          cs == trade.current_stop_price
          st0 == [trade |-> trade, table |-> table, notes |-> <<>>]
          st1 == take_profits(st0, 1, trade.remaining_fraction, Val(cp))
          st2 == stop_trail(st0, cs, Val(cp))
          latest_score == get_latest_score(scores, sym)
          st3 == signal_degradation(st0, latest_score, Val(cp))
          st4 == hourly_status(st3, latest_score, cs, Val(cp), now)
          first_tp == st1.notes[1]
      IN [history |-> history, notes |-> <<>>,
          active |->
            IF st1.notes # <<>>
            THEN update_trade(table, sym,
                   [k \in {TpKey(first_tp.tp_level), "remaining_fraction",
                           "realized_pnl"} |->
                      CASE k = "remaining_fraction" ->
                               Max(0, first_tp.remaining_pct)
                        [] k = "realized_pnl" ->
                               trade.realized_pnl + first_tp.pnl_chunk
                        [] OTHER -> 1])
            ELSE IF st2.notes # <<>> THEN st2.table
            ELSE IF st3.notes # <<>> THEN table
            ELSE IF st4.notes # <<>> THEN st3.table
            ELSE st4.table]

\* Database.get_active_trades: ORDER BY entry_timestamp DESC (rows entered
\* at one clock reading in descending id)
RECURSIVE get_active_trades(_)
get_active_trades(table) ==
    IF table = {} THEN <<>>
    ELSE LET r == CHOOSE x \in table : \A y \in table :
                      \/ y.entry_timestamp < x.entry_timestamp
                      \/ (y.entry_timestamp = x.entry_timestamp /\ y.id <= x.id)
         IN <<r>> \o get_active_trades(table \ {r})

\* ----------------------------------------------------------------- scorer
CRITICAL_THRESHOLD == 78
HIGH_ALERT_THRESHOLD == 62
WATCHLIST_THRESHOLD == 48
MONITOR_THRESHOLD == 33

\* Weights in hundredths, in the order of the dict
SIGNAL_WEIGHTS == <<
    [name |-> "oi_surge",                weight |-> 18],
    [name |-> "funding_rate",            weight |-> 17],
    [name |-> "liquidation_leverage",    weight |-> 15],
    [name |-> "cross_exchange_volume",   weight |-> 12],
    [name |-> "depth_imbalance",         weight |-> 11],
    [name |-> "volume_price_decouple",   weight |-> 8],
    [name |-> "volatility_compression",  weight |-> 8],
    [name |-> "long_short_ratio",        weight |-> 6],
    [name |-> "futures_spot_divergence", weight |-> 5] >>

SignalNames == {SIGNAL_WEIGHTS[i].name : i \in 1..Len(SIGNAL_WEIGHTS)}

\* Bonuses in hundredths
INTERACTION_BONUSES == <<
    [name |-> "squeeze_setup",
     signals |-> {"oi_surge", "funding_rate", "volatility_compression"},
     min_score |-> 45, bonus |-> 25],
    [name |-> "cascade_setup",
     signals |-> {"liquidation_leverage", "funding_rate", "long_short_ratio"},
     min_score |-> 40, bonus |-> 30],
    [name |-> "accumulation_setup",
     signals |-> {"oi_surge", "volume_price_decouple", "cross_exchange_volume"},
     min_score |-> 40, bonus |-> 20] >>

EXTENDED_PRICE_PENALTY == 40
EXTENDED_PRICE_THRESHOLD_PCT == 15

\* classify_score, on a score in units of 1 / ScoreOne
classify_score(score) ==
    IF score >= CRITICAL_THRESHOLD * ScoreOne THEN "CRITICAL"
    ELSE IF score >= HIGH_ALERT_THRESHOLD * ScoreOne THEN "HIGH_ALERT"
    ELSE IF score >= WATCHLIST_THRESHOLD * ScoreOne THEN "WATCHLIST"
    ELSE IF score >= MONITOR_THRESHOLD * ScoreOne THEN "MONITOR"
    ELSE "NONE"

clamp_below_only(value, min_val, max_val) ==
    Max(min_val, value)

\* max(min_val, min(max_val, value))
clamp(value, min_val, max_val) ==
    Max(min_val, IF max_val <= value THEN max_val ELSE value)

\* round(x, 1) where one tenth is q units: the nearest multiple of q, a tie
\* going to the even multiple (x >= 0)
round_to(x, q) ==
    LET n == x \div q
        r == x - n * q
    IN IF 2 * r > q \/ (2 * r = q /\ n % 2 = 1) THEN (n + 1) * q ELSE n * q

\* base += ns * weight over SIGNAL_WEIGHTS from entry i on, in thousandths
RECURSIVE weighted_sum(_, _)
weighted_sum(signals, i) ==
    IF i > Len(SIGNAL_WEIGHTS) THEN 0
    ELSE signals[SIGNAL_WEIGHTS[i].name] * SIGNAL_WEIGHTS[i].weight
         + weighted_sum(signals, i + 1)

\* bonus_mult += b["bonus"] over INTERACTION_BONUSES from entry i on
RECURSIVE bonus_sum(_, _)
bonus_sum(signal_scores, i) ==
    IF i > Len(INTERACTION_BONUSES) THEN 0
    ELSE LET b == INTERACTION_BONUSES[i] IN
         (IF \A n \in b.signals : signal_scores[n] >= b.min_score * NsOne
          THEN b.bonus ELSE 0)
         + bonus_sum(signal_scores, i + 1)

\* Scorer.score: the score_history table after the call and the returned
\* ScoreResult.  signals maps each signal name to its normalized_score in
\* units of 1 / NsOne, price_change_7d is in percent.
score(scores, symbol, signals, price_change_7d, now) ==
    LET signal_scores == [n \in SignalNames |-> round_to(signals[n], NsOne \div 10)]
        base == weighted_sum(signals, 1)
        bonus_mult == bonus_sum(signal_scores, 1)
        penalty_mult == IF price_change_7d > EXTENDED_PRICE_THRESHOLD_PCT
                        THEN EXTENDED_PRICE_PENALTY ELSE 0
        final == clamp(base * (100 + bonus_mult) * (100 - penalty_mult),
                       0, 100 * ScoreOne)
        classification == classify_score(final)
    IN [scores |-> store_score(scores, symbol, final, classification, now),
        result |-> [symbol |-> symbol,
                    composite_score |-> round_to(final, ScoreOne \div 10),
                    classification |-> classification,
                    bonus_total |-> bonus_mult,
                    penalty_total |-> penalty_mult]]

get_previous_score_latest(scores, symbol) == get_latest_score(scores, symbol)

\* Database.get_previous_score: the second row of ORDER BY timestamp DESC
\* LIMIT 2
get_previous_score(scores, symbol) ==
    LET idx == {i \in 1..Len(scores) : scores[i].symbol = symbol}
        newer(i, j) == \/ scores[j].timestamp < scores[i].timestamp
                       \/ (scores[j].timestamp = scores[i].timestamp /\ j <= i)
    IN IF Cardinality(idx) < 2 THEN None
       ELSE LET top == CHOOSE i \in idx : \A j \in idx : newer(i, j)
                rest == idx \ {top}
            IN Some(scores[CHOOSE i \in rest : \A j \in rest : newer(i, j)])

\* order.index(c)
class_index(c) ==
    CASE c = "NONE" -> 0
      [] c = "MONITOR" -> 1
      [] c = "WATCHLIST" -> 2
      [] c = "HIGH_ALERT" -> 3
      [] c = "CRITICAL" -> 4

\* Scorer.detect_events.  first_ticker is the "last" price of the first
\* valid ticker snapshot of the past 6 hours (None when there is none); of
\* an event the type, the symbol and the scores are kept.
detect_events(scores, symbol, current_score, current_price, first_ticker) ==
    LET prev == get_previous_score(scores, symbol) IN
    IF prev = None THEN <<>>
    ELSE
      LET ps == Val(prev).composite_score
          cs == current_score.composite_score
          pcl == Val(prev).classification
          cc == current_score.classification
          jump == IF cs - ps >= 15 * ScoreOne
                  THEN <<[type |-> "SCORE_JUMP", symbol |-> symbol,
                          previous_score |-> ps, current_score |-> cs]>>
                  ELSE <<>>
          upgrade == IF class_index(cc) > class_index(pcl)
                     THEN <<[type |-> "UPGRADE", symbol |-> symbol,
                             from_class |-> pcl, to_class |-> cc]>>
                     ELSE <<>>
          ignition == IF /\ first_ticker # None
                         /\ current_price > 0
                         /\ GainAtLeast(current_price, Val(first_ticker), 5)
                         /\ cs >= 48 * ScoreOne
                      THEN <<[type |-> "IGNITION", symbol |-> symbol,
                              score |-> cs]>>
                      ELSE <<>>
      IN jump \o upgrade \o ignition

\* -------------------------------------------------------------- scan cycle
alert_threshold == 48    \* sc.get("alert_score_threshold", 48)

\* Mutant of scan_failed: the partial result is returned
scan_failed_partial(sr) == Some(sr)

\* except Exception: logger.warning(...); return None
scan_failed(sr) == None

\* Scanner._scan_token on the collected data `data`: the score_history
\* table after the call and the returned result.  data.kind tells what the
\* collaborators do: "collect_raises" (collect_all raises), "no_data"
\* (nothing collected), "events_raise" (a step after score() raises), "ok".
\* The fields exchanges, signal_details and levels of the result are left
\* out.
scan_token(scores, symbol, data, now) ==
    LET blank == [symbol |-> symbol, composite_score |-> 0,
                  classification |-> "NONE", bonus_total |-> 0,
                  penalty_total |-> 0, current_price |-> 0, events |-> <<>>]
    IN
    IF data.kind = "collect_raises"
    THEN [scores |-> scores, result |-> scan_failed(blank)]
    ELSE IF data.kind = "no_data"
    THEN [scores |-> scores, result |-> None]
    ELSE
      LET s == score(scores, symbol, data.signals, data.price_change_7d, now)
          sr == [k \in DOMAIN blank |->
                   CASE k = "current_price" -> data.current_price
                     [] k = "events" -> <<>>
                     [] OTHER -> s.result[k]]
      IN IF data.kind = "events_raise"
         THEN [scores |-> s.scores, result |-> scan_failed(sr)]
         ELSE [scores |-> s.scores,
               result |-> Some([sr EXCEPT !.events =
                            detect_events(s.scores, symbol, sr,
                                          data.current_price,
                                          data.first_ticker)])]

\* if r and r["composite_score"] >= self.alert_threshold: results.append(r)
collect(results, r) ==
    IF r # None /\ Val(r).composite_score >= alert_threshold * ScoreOne
    THEN Append(results, Val(r))
    ELSE results

\* Mutant of sorts_before: the sort is ascending
sorts_before_ascending(a, b) == a.composite_score <= b.composite_score

\* key=lambda x: x["composite_score"], reverse=True: a stays ahead of b
sorts_before(a, b) == a.composite_score >= b.composite_score

\* results.sort(...): a stable sort
RECURSIVE sort_results(_)
sort_results(results) ==
    IF results = <<>> THEN <<>>
    ELSE LET r == results[Len(results)]
             front == sort_results(SubSeq(results, 1, Len(results) - 1))
             keep == {i \in 1..Len(front) : sorts_before(front[i], r)}
             n == Cardinality(keep)
         IN SubSeq(front, 1, n) \o <<r>> \o SubSeq(front, n + 1, Len(front))

\* The sink calls that _send_alerts makes for one result
sink_calls(r) ==
    (IF r.classification \in {"CRITICAL", "HIGH_ALERT", "WATCHLIST"}
     THEN <<[kind |-> "signal_alert", symbol |-> r.symbol,
             composite_score |-> r.composite_score]>>
     ELSE <<>>)
    \o [i \in 1..Len(r.events) |-> [kind |-> "event", event |-> r.events[i]]]

\* Mutant of pool_joined: the dispatch starts at the first completed task
pool_joined_first(tasks) == \E tok \in DOMAIN tasks : tasks[tok] = "done"

\* Leaving the ThreadPoolExecutor block: every future has completed
pool_joined(tasks) == \A tok \in DOMAIN tasks : tasks[tok] = "done"

\* run_continuous, the /scan thread, the thread of the Telegram bot
Threads == {"loop", "scan", "bot"}
\* The threads that call run_once
ScanThreads == {"loop", "scan"}
Tokens == <<"BTC", "ETH">>      \* list(universe.items())[:max_tokens]
TokenSet == {Tokens[i] : i \in 1..Len(Tokens)}

\* The locals of a thread that is not inside run_once
no_locals ==
    [need |-> <<>>,
     tasks |-> [tok \in TokenSet |-> "none"],
     kinds |-> [tok \in TokenSet |-> "none"],
     scanned |-> [tok \in TokenSet |-> None],
     completed |-> <<>>,
     results |-> <<>>, next |-> 1, sent |-> <<>>,
     trades |-> <<>>, tick |-> None, closing |-> None, cycles |-> 0]

ScanIdle ==
    /\ pc = [t \in Threads |-> "idle"]
    /\ locals = [t \in Threads |-> no_locals]
    /\ bootstrapped = {}
    /\ deep_history = {}
    /\ backfills = [tok \in TokenSet |-> 0]

Init ==
    /\ ScanIdle
    /\ active_trades = {}
    /\ trade_history = <<>>
    /\ score_history = <<>>
    /\ next_id = 1
    /\ clock = 0
    /\ notes = <<>>
    /\ last = [op |-> "init"]
    /\ tp_sent = {}
    /\ status_sent = {}
    /\ steps = 0

\* Scanner.add_trade
AddTrade(raw, ep, ps, sl) ==
    LET sym == Upper(raw) IN
    /\ next_id <= MaxTrades
    /\ active_trades' = add_trade_db(active_trades, next_id, sym, ep, ps, sl, clock)
    /\ next_id' = next_id + 1
    /\ notes' = <<[kind |-> "trade_registered", symbol |-> sym,
                   entry_price |-> ep, position_size_usd |-> ps, stop_loss_pct |-> sl]>>
    /\ last' = [op |-> "add_trade", symbol |-> sym, entry_price |-> ep,
                position_size_usd |-> ps, stop_loss_pct |-> sl, result |-> TRUE]
    /\ UNCHANGED <<trade_history, score_history, clock, tp_sent, status_sent>>

\* One iteration of Scanner._monitor_trades: _check_trade on an active row
MonitorTick(trade, cp) ==
    LET r == check_trade(active_trades, trade_history, score_history,
                         trade, cp, clock)
    IN
    /\ active_trades' = r.active
    /\ trade_history' = r.history
    /\ notes' = r.notes
    /\ last' = [op |-> "tick", symbol |-> trade.symbol, id |-> trade.id,
                price |-> cp]
    /\ tp_sent' = tp_sent \cup
           {<<r.notes[i].id, r.notes[i].tp_level>> :
               i \in {j \in 1..Len(r.notes) : r.notes[j].kind = "tp_hit"}}
    /\ status_sent' = status_sent \cup
           {<<trade.id, r.notes[i].hours_in>> :
               i \in {j \in 1..Len(r.notes) : r.notes[j].kind = "trade_status"}}
    /\ UNCHANGED <<score_history, next_id, clock>>

\* Scanner.close_trade(sym, exit_p); live is what _live_price returns
CloseTrade(raw, exit_p, live) ==
    LET sym == Upper(raw)
        exit_1 == IF exit_p = None THEN live ELSE exit_p
    IN
    IF exit_1 = None
    THEN /\ notes' = <<>>
         /\ last' = [op |-> "close_trade", symbol |-> sym, exit |-> exit_1,
                     result |-> None]
         /\ UNCHANGED <<active_trades, trade_history, score_history, next_id,
                        clock, tp_sent, status_sent>>
    ELSE LET c == close_trade_db(active_trades, trade_history, sym,
                                 Val(exit_1), "manual_close", clock)
         IN /\ active_trades' = c.active
            /\ trade_history' = c.history
            /\ notes' = IF c.result # None
                        THEN <<[kind |-> "trade_closed", symbol |-> sym,
                                result |-> Val(c.result),
                                reason |-> "MANUAL CLOSE"]>>
                        ELSE <<>>
            /\ last' = [op |-> "close_trade", symbol |-> sym, exit |-> exit_1,
                        result |-> c.result]
            /\ UNCHANGED <<score_history, next_id, clock, tp_sent, status_sent>>

\* Scorer.score persists the composite score it computed
StoreScore(sym, composite_score) ==
    /\ Len(score_history) < MaxScoreRows
    /\ score_history' = store_score(score_history, sym, composite_score,
                                    classify_score(composite_score), clock)
    /\ notes' = <<>>
    /\ last' = [op |-> "store_score", symbol |-> sym]
    /\ UNCHANGED <<active_trades, trade_history, next_id, clock, tp_sent,
                   status_sent>>

\* 1800 s pass
AdvanceClock ==
    /\ clock < MaxClock
    /\ clock' = clock + 1
    /\ notes' = <<>>
    /\ last' = [op |-> "advance_clock"]
    /\ UNCHANGED <<active_trades, trade_history, score_history, next_id, tp_sent,
                   status_sent>>

Next ==
    /\ steps < MaxSteps
    /\ steps' = steps + 1
    /\ UNCHANGED scan_vars
    /\ \/ \E raw \in RawSymbols, ep \in EntryPrices, ps \in Sizes, sl \in StopPcts :
             AddTrade(raw, ep, ps, sl)
       \/ \E trade \in active_trades, cp \in {None} \cup {Some(p) : p \in LivePrices} :
             MonitorTick(trade, cp)
       \/ \E raw \in RawSymbols,
             exit_p \in {None} \cup {Some(p) : p \in ExitPrices},
             live \in {None} \cup {Some(p) : p \in CloseLivePrices} :
             CloseTrade(raw, exit_p, live)
       \/ \E sym \in Symbols, sc \in ScoreInputs : StoreScore(sym, sc)
       \/ AdvanceClock

Spec == Init /\ [][Next]_vars

\* ------------------------------------------- scores around an open trade
\* The trade monitor next to a scorer that persists scores 5 and 20 apart
NextDegrade ==
    /\ steps < MaxSteps
    /\ steps' = steps + 1
    /\ UNCHANGED scan_vars
    /\ \/ \E raw \in RawSymbols, ep \in EntryPrices, ps \in Sizes, sl \in StopPcts :
             AddTrade(raw, ep, ps, sl)
       \/ \E trade \in active_trades, cp \in {None} \cup {Some(p) : p \in DegradePrices} :
             MonitorTick(trade, cp)
       \/ \E sym \in Symbols, sc \in DegradeScores : StoreScore(sym, sc)

SpecDegrade == Init /\ [][NextDegrade]_vars

\* ------------------------------------------------ hours of an open trade
\* n * 1800 s pass
PassTime(n) ==
    /\ clock + n <= MaxStatusClock
    /\ clock' = clock + n
    /\ notes' = <<>>
    /\ last' = [op |-> "pass_time", n |-> n]
    /\ UNCHANGED <<active_trades, trade_history, score_history, next_id, tp_sent,
                   status_sent>>

\* The trade monitor over several hours of a trade
NextStatus ==
    /\ steps < MaxSteps
    /\ steps' = steps + 1
    /\ UNCHANGED scan_vars
    /\ \/ \E raw \in RawSymbols, ep \in EntryPrices, ps \in Sizes, sl \in StopPcts :
             AddTrade(raw, ep, ps, sl)
       \/ \E trade \in active_trades, cp \in {None} \cup {Some(p) : p \in StatusPrices} :
             MonitorTick(trade, cp)
       \/ \E n \in Waits : PassTime(n)

SpecStatus == Init /\ [][NextStatus]_vars

\* ------------------------------------------------------- the scorer alone
\* A signal vector: funding_rate y, volume_price_decouple z, the rest x
Profile(x, y, z) ==
    [n \in SignalNames |->
        CASE n = "funding_rate" -> y
          [] n = "volume_price_decouple" -> z
          [] OTHER -> x]

ScoreProfiles == {Profile(200, 200, 200), Profile(340, 300, 300),
                  Profile(410, 350, 410), Profile(572, 300, 0),
                  Profile(561, 300, 561), Profile(721, 300, 721),
                  Profile(703, 390, 703), Profile(940, 300, 300),
                  Profile(1000, 1000, 1000)}
PriceChanges7d == {0, 20}

\* One call of Scorer.score
ScoreToken(sym, signals, price_change_7d) ==
    LET s == score(score_history, sym, signals, price_change_7d, clock) IN
    /\ Len(score_history) < MaxScoreRows
    /\ score_history' = s.scores
    /\ notes' = <<>>
    /\ last' = [op |-> "score", symbol |-> sym, signals |-> signals,
                price_change_7d |-> price_change_7d, result |-> s.result]
    /\ UNCHANGED <<active_trades, trade_history, next_id, clock, tp_sent,
                   status_sent>>

NextScore ==
    /\ steps < MaxSteps
    /\ steps' = steps + 1
    /\ UNCHANGED scan_vars
    /\ \E sym \in Symbols, signals \in ScoreProfiles, p \in PriceChanges7d :
          ScoreToken(sym, signals, p)

SpecScore == Init /\ [][NextScore]_vars

\* --------------------------------------------- one signal of a token rises
\* normalized scores that a signal rises to, around the min_score of the
\* interaction bonuses
RaisedScores == {399, 400, 449, 450, 1000}

\* Scorer.score on the signals of the call before with the normalized score
\* of signal name raised to ns, the 7-day price change being the same
ScoreRaised(name, ns) ==
    /\ last.op \in {"score", "rescore"}
    /\ ns > last.signals[name]
    /\ Len(score_history) < MaxScoreRows
    /\ LET signals == [last.signals EXCEPT ![name] = ns]
           s == score(score_history, last.symbol, signals,
                      last.price_change_7d, clock)
       IN /\ score_history' = s.scores
          /\ last' = [op |-> "rescore", symbol |-> last.symbol,
                      signals |-> signals,
                      price_change_7d |-> last.price_change_7d,
                      result |-> s.result, before |-> last.result,
                      raised |-> name]
    /\ notes' = <<>>
    /\ UNCHANGED <<active_trades, trade_history, next_id, clock, tp_sent,
                   status_sent>>

NextRaise ==
    /\ steps < MaxSteps
    /\ steps' = steps + 1
    /\ UNCHANGED scan_vars
    /\ \/ \E sym \in Symbols, signals \in ScoreProfiles, p \in PriceChanges7d :
             ScoreToken(sym, signals, p)
       \/ \E name \in SignalNames, ns \in RaisedScores : ScoreRaised(name, ns)

SpecRaise == Init /\ [][NextRaise]_vars

\* ------------------------------------------------------ scan-cycle steps
\* CollectorData.needs_bootstrap
needs_bootstrap(deep, symbol) == symbol \notin deep

\* The first loop of _bootstrap_batch: under _bs_lock the membership test,
\* then needs_bootstrap
bootstrap_need(tokens, done, deep) ==
    SelectSeq(tokens, LAMBDA sym : sym \notin done /\ needs_bootstrap(deep, sym))

\* The calls that thread t may make in one run
cycle_limit(t) == IF t = "scan" THEN MaxScans ELSE MaxCycles

\* run_once is entered: by run_continuous, or by the thread that the
\* Telegram /scan handler starts
StartCycle(t) ==
    /\ pc[t] = "idle"
    /\ locals[t].cycles < cycle_limit(t)
    /\ pc' = [pc EXCEPT ![t] = "check"]
    /\ locals' = [locals EXCEPT ![t] =
                    [no_locals EXCEPT !.cycles = locals[t].cycles + 1]]
    /\ notes' = <<>>
    /\ last' = [op |-> "run_once", thread |-> t]
    /\ UNCHANGED <<active_trades, trade_history, score_history, next_id, clock,
                   tp_sent, status_sent, bootstrapped, deep_history, backfills>>

\* _bootstrap_batch, first loop
BootstrapCheck(t) ==
    /\ pc[t] = "check"
    /\ pc' = [pc EXCEPT ![t] = "backfill"]
    /\ locals' = [locals EXCEPT ![t].need =
                    bootstrap_need(Tokens, bootstrapped, deep_history)]
    /\ notes' = <<>>
    /\ last' = [op |-> "bootstrap_check", thread |-> t]
    /\ UNCHANGED <<active_trades, trade_history, score_history, next_id, clock,
                   tp_sent, status_sent, bootstrapped, deep_history, backfills>>

\* _bootstrap_batch, one iteration of the second loop: bootstrap_token runs
\* to completion (ok) or raises; a completed backfill may or may not reach
\* 48 h back (deepens)
Backfill(t, ok, deepens) ==
    /\ pc[t] = "backfill"
    /\ locals[t].need # <<>>
    /\ ok \/ ~deepens
    /\ LET sym == Head(locals[t].need) IN
       /\ bootstrapped' = IF ok THEN bootstrapped \cup {sym} ELSE bootstrapped
       /\ backfills' = IF ok THEN [backfills EXCEPT ![sym] = @ + 1] ELSE backfills
       /\ deep_history' = IF deepens THEN deep_history \cup {sym} ELSE deep_history
       /\ last' = [op |-> "bootstrap_token", thread |-> t, symbol |-> sym,
                   ok |-> ok]
    /\ locals' = [locals EXCEPT ![t].need = Tail(@)]
    /\ notes' = <<>>
    /\ UNCHANGED <<pc, active_trades, trade_history, score_history, next_id,
                   clock, tp_sent, status_sent>>

\* pool.submit for every token, after _bootstrap_batch has returned
StartPool(t) ==
    /\ pc[t] = "backfill"
    /\ locals[t].need = <<>>
    /\ pc' = [pc EXCEPT ![t] = "pool"]
    /\ locals' = [locals EXCEPT ![t].tasks = [tok \in TokenSet |-> "running"]]
    /\ notes' = <<>>
    /\ last' = [op |-> "submit", thread |-> t]
    /\ UNCHANGED <<active_trades, trade_history, score_history, next_id, clock,
                   tp_sent, status_sent, bootstrapped, deep_history, backfills>>

\* One future completes and the as_completed loop takes its result
TaskDone(t, tok, data) ==
    LET r == scan_token(score_history, tok, data, clock) IN
    /\ pc[t] = "pool"
    /\ locals[t].tasks[tok] = "running"
    /\ score_history' = r.scores
    /\ locals' = [locals EXCEPT ![t].tasks[tok] = "done",
                                ![t].kinds[tok] = data.kind,
                                ![t].scanned[tok] = r.result,
                                ![t].completed = Append(@, tok),
                                ![t].results = collect(@, r.result)]
    /\ notes' = <<>>
    /\ last' = [op |-> "scan_token", thread |-> t, symbol |-> tok]
    /\ UNCHANGED <<pc, active_trades, trade_history, next_id, clock, tp_sent,
                   status_sent, bootstrapped, deep_history, backfills>>

\* The pool is left and the results are sorted
JoinPool(t) ==
    /\ pc[t] = "pool"
    /\ pool_joined(locals[t].tasks)
    /\ pc' = [pc EXCEPT ![t] = "dispatch"]
    /\ locals' = [locals EXCEPT ![t].results = sort_results(@)]
    /\ notes' = <<>>
    /\ last' = [op |-> "sort", thread |-> t]
    /\ UNCHANGED <<active_trades, trade_history, score_history, next_id, clock,
                   tp_sent, status_sent, bootstrapped, deep_history, backfills>>

\* One iteration of _send_alerts.  With sink_ok the sinks take every call
\* made for the result; without, the first call raises and the exception
\* leaves _send_alerts and run_once.
Dispatch(t, sink_ok) ==
    /\ pc[t] = "dispatch"
    /\ locals[t].next <= Len(locals[t].results)
    /\ LET calls == sink_calls(locals[t].results[locals[t].next]) IN
       /\ sink_ok \/ calls # <<>>
       /\ IF sink_ok
          THEN /\ locals' = [locals EXCEPT ![t].next = @ + 1,
                                           ![t].sent = @ \o calls]
               /\ notes' = calls
               /\ pc' = pc
          ELSE /\ locals' = locals
               /\ notes' = <<>>
               /\ pc' = [pc EXCEPT ![t] = "aborted"]
    /\ last' = [op |-> "send_alerts", thread |-> t, sink_ok |-> sink_ok]
    /\ UNCHANGED <<active_trades, trade_history, score_history, next_id, clock,
                   tp_sent, status_sent, bootstrapped, deep_history, backfills>>

\* _send_alerts has returned: _monitor_trades reads the active trades
BeginMonitor(t) ==
    /\ pc[t] = "dispatch"
    /\ locals[t].next > Len(locals[t].results)
    /\ pc' = [pc EXCEPT ![t] = IF active_trades = {} THEN "done" ELSE "monitor"]
    /\ locals' = [locals EXCEPT ![t].trades = get_active_trades(active_trades)]
    /\ notes' = <<>>
    /\ last' = [op |-> "monitor_trades", thread |-> t]
    /\ UNCHANGED <<active_trades, trade_history, score_history, next_id, clock,
                   tp_sent, status_sent, bootstrapped, deep_history, backfills>>

\* run_continuous calls _monitor_trades outside run_once
MonitorOnly(t) ==
    /\ t = "loop"
    /\ pc[t] = "idle"
    /\ locals[t].cycles < cycle_limit(t)
    /\ pc' = [pc EXCEPT ![t] = IF active_trades = {} THEN "done" ELSE "monitor"]
    /\ locals' = [locals EXCEPT ![t] =
                    [no_locals EXCEPT !.cycles = locals[t].cycles + 1,
                                      !.trades = get_active_trades(active_trades)]]
    /\ notes' = <<>>
    /\ last' = [op |-> "monitor_only", thread |-> t]
    /\ UNCHANGED <<active_trades, trade_history, score_history, next_id, clock,
                   tp_sent, status_sent, bootstrapped, deep_history, backfills>>

\* _check_trade is entered with the next row of the list
TickBegin(t) ==
    /\ pc[t] = "monitor"
    /\ locals[t].tick = None
    /\ locals[t].trades # <<>>
    /\ locals' = [locals EXCEPT ![t].tick = Some(Head(locals[t].trades)),
                                ![t].trades = Tail(@)]
    /\ notes' = <<>>
    /\ last' = [op |-> "enter_tick", thread |-> t]
    /\ UNCHANGED <<pc, active_trades, trade_history, score_history, next_id,
                   clock, tp_sent, status_sent, bootstrapped, deep_history,
                   backfills>>

\* _check_trade runs and returns, or is left by the exception of a sink
\* (not sink_ok), which _monitor_trades logs
TickEnd(t, cp, sink_ok) ==
    /\ pc[t] = "monitor"
    /\ locals[t].tick # None
    /\ LET trade == Val(locals[t].tick)
           r == IF sink_ok
                THEN check_trade(active_trades, trade_history, score_history,
                                 trade, cp, clock)
                ELSE check_trade_raising(active_trades, trade_history,
                                         score_history, trade, cp, clock)
       IN /\ active_trades' = r.active
          /\ trade_history' = r.history
          /\ notes' = r.notes
          /\ last' = [op |-> "tick", symbol |-> trade.symbol, id |-> trade.id,
                      price |-> cp, thread |-> t, sink_ok |-> sink_ok]
          /\ tp_sent' = tp_sent \cup
                 {<<r.notes[i].id, r.notes[i].tp_level>> :
                     i \in {j \in 1..Len(r.notes) : r.notes[j].kind = "tp_hit"}}
          /\ status_sent' = status_sent \cup
                 {<<trade.id, r.notes[i].hours_in>> :
                     i \in {j \in 1..Len(r.notes) :
                               r.notes[j].kind = "trade_status"}}
    /\ locals' = [locals EXCEPT ![t].tick = None]
    /\ pc' = [pc EXCEPT ![t] = IF locals[t].trades = <<>> THEN "done"
                                ELSE "monitor"]
    /\ UNCHANGED <<score_history, next_id, clock, bootstrapped, deep_history,
                   backfills>>

\* The call has returned or was left by an exception: the loop goes on,
\* the /scan thread ends and a later /scan starts another
Return(t) ==
    /\ pc[t] \in {"done", "aborted"}
    /\ pc' = [pc EXCEPT ![t] = "idle"]
    /\ notes' = <<>>
    /\ last' = [op |-> "return", thread |-> t]
    /\ UNCHANGED <<locals, active_trades, trade_history, score_history, next_id,
                   clock, tp_sent, status_sent, bootstrapped, deep_history,
                   backfills>>

\* ------------------------------------------------------- one scan cycle
ScanProfiles == {Profile(470, 300, 0), Profile(572, 300, 0),
                 Profile(940, 300, 300)}
ScanFailures == {"collect_raises", "no_data", "events_raise"}
ScanData ==
    {[kind |-> k, signals |-> Profile(940, 300, 300), price_change_7d |-> 0,
      current_price |-> 107, first_ticker |-> Some(100)] : k \in ScanFailures}
    \cup
    {[kind |-> "ok", signals |-> sg, price_change_7d |-> 0,
      current_price |-> 107, first_ticker |-> Some(100)] : sg \in ScanProfiles}
ScanPrices == {107, 115}

\* A trade on BTC entered an hour ago, and one earlier score of 20 for
\* each token
InitScan ==
    /\ ScanIdle
    /\ active_trades = {new_trade_row(1, "BTC", 100, 10000, 7, 0)}
    /\ trade_history = <<>>
    /\ score_history = <<[timestamp |-> 0, symbol |-> "BTC",
                          composite_score |-> 20 * ScoreOne,
                          classification |-> "NONE"],
                         [timestamp |-> 0, symbol |-> "ETH",
                          composite_score |-> 20 * ScoreOne,
                          classification |-> "NONE"]>>
    /\ next_id = 2
    /\ clock = 2
    /\ notes = <<>>
    /\ last = [op |-> "init"]
    /\ tp_sent = {}
    /\ status_sent = {}
    /\ steps = 0

\* One thread: run_continuous
NextScan ==
    /\ UNCHANGED steps
    /\ \E t \in {"loop"} :
          \/ StartCycle(t)
          \/ BootstrapCheck(t)
          \/ \E ok \in BOOLEAN, deepens \in BOOLEAN : Backfill(t, ok, deepens)
          \/ StartPool(t)
          \/ \E tok \in TokenSet, data \in ScanData : TaskDone(t, tok, data)
          \/ JoinPool(t)
          \/ \E sink_ok \in BOOLEAN : Dispatch(t, sink_ok)
          \/ BeginMonitor(t)
          \/ MonitorOnly(t)
          \/ TickBegin(t)
          \/ \E p \in ScanPrices, sink_ok \in BOOLEAN : TickEnd(t, Some(p), sink_ok)

SpecScan == InitScan /\ [][NextScan]_vars

\* ----------------------------------------- token pipelines one by one
\* What the collaborators hand to a pipeline: signals worth 20.0, 40.4,
\* 48.0 and 78.0, a price 5% or 4% above the first ticker of the past 6
\* hours, or no ticker in that window
PipelineProfiles == {Profile(200, 200, 200), Profile(470, 300, 0),
                     Profile(572, 300, 0), Profile(940, 300, 300)}
PipelinePrices == {[current_price |-> 105, first_ticker |-> Some(100)],
                   [current_price |-> 104, first_ticker |-> Some(100)],
                   [current_price |-> 105, first_ticker |-> None]}
PipelineData ==
    {[kind |-> "ok", signals |-> sg, price_change_7d |-> 0,
      current_price |-> pr.current_price, first_ticker |-> pr.first_ticker] :
        sg \in PipelineProfiles, pr \in PipelinePrices}

\* One call of Scanner._scan_token, no other pipeline being at work on the
\* symbol
ScanToken(sym, data) ==
    LET r == scan_token(score_history, sym, data, clock) IN
    /\ Len(score_history) < MaxPipelineRows
    /\ score_history' = r.scores
    /\ notes' = <<>>
    /\ last' = [op |-> "scan_token", symbol |-> sym, data |-> data,
                result |-> r.result]
    /\ UNCHANGED <<active_trades, trade_history, next_id, clock, tp_sent,
                   status_sent>>

NextPipeline ==
    /\ steps < MaxSteps
    /\ steps' = steps + 1
    /\ UNCHANGED scan_vars
    /\ \E sym \in Symbols, data \in PipelineData : ScanToken(sym, data)

SpecPipeline == Init /\ [][NextPipeline]_vars

\* ------------------------------------------------------ levels calculator
\* Prices and the ATR are held in units of 1 / PriceOne of 1e-8, the place
\* that round(x, 8) keeps; a percentage of the stop is held in hundredths
\* of a percent, a multiplier in tenths or hundredths as noted.
PriceOne == 100

MIN_STOP_PCT == 25      \* 2.5, in tenths of a percent
MAX_STOP_PCT == 150     \* 15.0, in tenths of a percent
MIN_TP1_PCT == 5
MIN_RR_RATIO == 15      \* 1.5, in tenths

\* round(n / d, 0) for n >= 0, d > 0: the nearest integer, a tie going to
\* the even one
round_div(n, d) ==
    LET q == n \div d
        r == n - q * d
    IN IF 2 * r > d \/ (2 * r = d /\ q % 2 = 1) THEN q + 1 ELSE q

\* self.MIN_STOP_PCT <= ((price - stop) / price) * 100 <= self.MAX_STOP_PCT
in_stop_band(price, stop) ==
    /\ (price - stop) * 1000 >= MIN_STOP_PCT * price
    /\ (price - stop) * 1000 <= MAX_STOP_PCT * price

\* max(price * (1 - MAX_STOP_PCT / 100),
\*     min(price * (1 - MIN_STOP_PCT / 100), best[1]))
band_clamp(price, stop) ==
    LET hi == (price * (1000 - MIN_STOP_PCT)) \div 1000
    IN Max((price * (1000 - MAX_STOP_PCT)) \div 1000,
           IF hi <= stop THEN hi ELSE stop)

\* LevelsCalculator._calc_stop.  swing_low is min(lows) of the last 24
\* candles (None with fewer than 12 candles or no positive low), support
\* the price of the bid cluster that _bid_cluster returns (None without
\* one).  fp is the stop before round(fp, 8).
calc_stop(price, atr, swing_low, support, sc) ==
    LET mult == IF sc >= 78 * ScoreOne THEN 15
                ELSE IF sc >= 62 * ScoreOne THEN 20 ELSE 25
        atr_stop == price - (atr * mult) \div 10
        swing_stop == IF swing_low = None THEN None
                      ELSE Some((Val(swing_low) * 995) \div 1000)
        ob_stop == IF support = None THEN None
                   ELSE Some((Val(support) * 997) \div 1000)
        candidates ==
            <<[method |-> "atr", stop |-> atr_stop]>>
            \o (IF swing_stop # None /\ in_stop_band(price, Val(swing_stop))
                THEN <<[method |-> "swing_low", stop |-> Val(swing_stop)]>>
                ELSE <<>>)
            \o (IF ob_stop # None /\ in_stop_band(price, Val(ob_stop))
                THEN <<[method |-> "support", stop |-> Val(ob_stop)]>>
                ELSE <<>>)
        valid == {i \in 1..Len(candidates) :
                     /\ price - candidates[i].stop >= atr
                     /\ (price - candidates[i].stop) * 1000
                            >= MIN_STOP_PCT * price}
        best == IF valid # {}
                THEN candidates[CHOOSE i \in valid : \A j \in valid :
                        \/ candidates[j].stop < candidates[i].stop
                        \/ (candidates[j].stop = candidates[i].stop /\ i <= j)]
                ELSE candidates[1]
        fp == band_clamp(price, best.stop)
    IN [price |-> round_to(fp, PriceOne),
        pct |-> round_div((price - fp) * 10000, price),
        method |-> best.method,
        fp |-> fp]

\* tp1 = max(tp1, price + risk * self.MIN_RR_RATIO)
rr_floor(tp1, price, risk) == Max(tp1, price + (risk * MIN_RR_RATIO) \div 10)

\* LevelsCalculator._calc_tps.  walls is what _ask_walls returns: the
\* prices of the ask walls above price, ascending; lr is the leverage
\* ratio; stop is the result of _calc_stop.
calc_tps(price, atr, walls, lr, sc, stop) ==
    LET cm == IF lr >= 5 THEN 18 ELSE IF lr >= 3 THEN 14
              ELSE IF lr >= 2 THEN 12 ELSE 10
        sm == IF sc >= 85 * ScoreOne THEN 130
              ELSE IF sc >= 75 * ScoreOne THEN 115 ELSE 100
        m == (cm * sm) \div 10
        tp1a == price + (atr * 30 * m) \div 1000
        tp2a == price + (atr * 55 * m) \div 1000
        tp3a == price + (atr * 90 * m) \div 1000
        tp1b == IF /\ Len(walls) >= 1
                   /\ walls[1] < tp1a
                   /\ walls[1] * 100 > price * 103
                THEN [p |-> (walls[1] * 997) \div 1000, m |-> "resistance"]
                ELSE [p |-> tp1a, m |-> "atr"]
        tp2b == IF /\ Len(walls) >= 2
                   /\ walls[2] * 10 < tp2a * 11
                   /\ walls[2] * 100 > tp1b.p * 105
                THEN [p |-> (walls[2] * 997) \div 1000, m |-> "resistance"]
                ELSE [p |-> tp2a, m |-> "atr"]
        tp3b == IF /\ Len(walls) >= 3
                   /\ walls[3] * 100 < tp3a * 115
                   /\ walls[3] * 100 > tp2b.p * 105
                THEN [p |-> (walls[3] * 997) \div 1000, m |-> "resistance"]
                ELSE [p |-> tp3a, m |-> "atr"]
        tp1c == Max(tp1b.p, (price * (100 + MIN_TP1_PCT)) \div 100)
        tp2 == Max(tp2b.p, (tp1c * 105) \div 100)
        tp3 == Max(tp3b.p, (tp2 * 105) \div 100)
        risk == (price * stop.pct) \div 10000
        tp1 == rr_floor(tp1c, price, risk)
    IN <<[level |-> 1, price |-> round_to(tp1, PriceOne), method |-> tp1b.m],
         [level |-> 2, price |-> round_to(tp2, PriceOne), method |-> tp2b.m],
         [level |-> 3, price |-> round_to(tp3, PriceOne), method |-> tp3b.m]>>

\* LevelsCalculator.compute for price > 0; of the result the stop and the
\* take profits are kept
compute(price, atr, swing_low, support, walls, lr, sc) ==
    LET stop == calc_stop(price, atr, swing_low, support, sc)
    IN [price |-> price, stop |-> stop,
        take_profits |-> calc_tps(price, atr, walls, lr, sc, stop)]

\* Prices of 0.00001218 and 0.00002, ATRs of 1e-7, 8e-7 and 2e-6, a swing
\* low of 0.0000173 or 0.000019, a bid cluster 3% below the price, up to
\* three ask walls 4%, 15% and 30% above it
LevelPrices == {1218 * PriceOne, 2000 * PriceOne}
LevelAtrs == {10 * PriceOne, 80 * PriceOne, 200 * PriceOne}
SwingLows == {None, Some(1730 * PriceOne), Some(1900 * PriceOne)}
Supports(price) == {None, Some((price * 97) \div 100)}
AskWalls(price) ==
    {<<>>, <<(price * 104) \div 100>>,
     <<(price * 104) \div 100, (price * 115) \div 100, (price * 130) \div 100>>}
LeverageRatios == {1, 3}
LevelScores == {50 * ScoreOne, 80 * ScoreOne}

\* One call of LevelsCalculator.compute
ComputeLevels(price, atr, swing_low, support, walls, lr, sc) ==
    /\ last' = [op |-> "levels", atr |-> atr, swing_low |-> swing_low,
                support |-> support, walls |-> walls, leverage_ratio |-> lr,
                score |-> sc,
                result |-> compute(price, atr, swing_low, support, walls,
                                   lr, sc)]
    /\ notes' = <<>>
    /\ UNCHANGED <<active_trades, trade_history, score_history, next_id,
                   clock, tp_sent, status_sent>>

NextLevels ==
    /\ steps < MaxSteps
    /\ steps' = steps + 1
    /\ UNCHANGED scan_vars
    /\ \E price \in LevelPrices :
          \E atr \in LevelAtrs, swing_low \in SwingLows,
             support \in Supports(price), walls \in AskWalls(price),
             lr \in LeverageRatios, sc \in LevelScores :
             ComputeLevels(price, atr, swing_low, support, walls, lr, sc)

SpecLevels == Init /\ [][NextLevels]_vars

\* ------------------------------------------------------- piecewise_lerp
\* A result of piecewise_lerp is held in units of 1 / LerpOne, which every
\* distance between two breakpoints of LerpXs divides
LerpOne == 12

interpolate_from_right(value, x0, y0, x1, y1) ==
    y0 * LerpOne + ((x1 - value) * (y1 - y0) * LerpOne) \div (x1 - x0)

\* t = (value - x0) / (x1 - x0); return float(y0 + t * (y1 - y0))
interpolate(value, x0, y0, x1, y1) ==
    y0 * LerpOne + ((value - x0) * (y1 - y0) * LerpOne) \div (x1 - x0)

\* piecewise_lerp(value, breakpoints), breakpoints a list of <<x, y>>
piecewise_lerp(value, breakpoints) ==
    LET n == Len(breakpoints)
        segs == {i \in 1..(n - 1) :
                    breakpoints[i][1] <= value /\ value <= breakpoints[i + 1][1]}
    IN IF n = 0 THEN 0
       ELSE IF value <= breakpoints[1][1] THEN breakpoints[1][2] * LerpOne
       ELSE IF value >= breakpoints[n][1] THEN breakpoints[n][2] * LerpOne
       ELSE IF segs = {} THEN 0
       ELSE LET i == CHOOSE k \in segs : \A j \in segs : k <= j
                x0 == breakpoints[i][1]
                y0 == breakpoints[i][2]
                x1 == breakpoints[i + 1][1]
                y1 == breakpoints[i + 1][2]
            IN IF x1 = x0 THEN y0 * LerpOne
               ELSE interpolate(value, x0, y0, x1, y1)

\* Breakpoint lists of one to three points, x increasing and y not
\* decreasing, and values from below the first to above the last of them
LerpXs == {0, 2, 3, 6}
LerpYs == {0, 5, 10}
LerpValues == (0 - 1)..7
LerpPoints == LerpXs \X LerpYs
Breakpoints ==
    {<<a>> : a \in LerpPoints}
    \cup {bp \in {<<a, b>> : a \in LerpPoints, b \in LerpPoints} :
             bp[1][1] < bp[2][1] /\ bp[1][2] <= bp[2][2]}
    \cup {bp \in {<<a, b, c>> : a \in LerpPoints, b \in LerpPoints,
                                c \in LerpPoints} :
             /\ bp[1][1] < bp[2][1] /\ bp[2][1] < bp[3][1]
             /\ bp[1][2] <= bp[2][2] /\ bp[2][2] <= bp[3][2]}

\* One call of piecewise_lerp
Lerp(value, breakpoints) ==
    /\ last' = [op |-> "lerp", value |-> value, breakpoints |-> breakpoints,
                result |-> piecewise_lerp(value, breakpoints)]
    /\ notes' = <<>>
    /\ UNCHANGED <<active_trades, trade_history, score_history, next_id,
                   clock, tp_sent, status_sent>>

NextLerp ==
    /\ steps < MaxSteps
    /\ steps' = steps + 1
    /\ UNCHANGED scan_vars
    /\ \E value \in LerpValues, breakpoints \in Breakpoints :
          Lerp(value, breakpoints)

SpecLerp == Init /\ [][NextLerp]_vars

\* ------------------------------------------- the loop and a /scan thread
\* Every token scores 48.0, every completed backfill reaches 48 h back and
\* the sinks take every call
ConcData == {[kind |-> "ok", signals |-> Profile(572, 300, 0),
              price_change_7d |-> 0, current_price |-> 107,
              first_ticker |-> None]}
ConcPrices == {107}

NextConc ==
    /\ UNCHANGED steps
    /\ \E t \in ScanThreads :
          \/ StartCycle(t)
          \/ BootstrapCheck(t)
          \/ \E ok \in BOOLEAN : Backfill(t, ok, ok)
          \/ StartPool(t)
          \/ \E tok \in TokenSet, data \in ConcData : TaskDone(t, tok, data)
          \/ JoinPool(t)
          \/ Dispatch(t, TRUE)
          \/ BeginMonitor(t)
          \/ MonitorOnly(t)
          \/ TickBegin(t)
          \/ \E p \in ConcPrices : TickEnd(t, Some(p), TRUE)
          \/ Return(t)

SpecConc == InitScan /\ [][NextConc]_vars
\* ------------------------------------------------- closes side by side
\* Scanner.close_trade on the bot thread, as far as the SELECT of
\* Database.close_trade; live is what _live_price returns
CloseBegin(t, raw, exit_p, live) ==
    LET sym == Upper(raw)
        exit_1 == IF exit_p = None THEN live ELSE exit_p
    IN
    /\ pc[t] = "idle"
    /\ notes' = <<>>
    /\ IF exit_1 = None
       THEN /\ last' = [op |-> "close_trade", thread |-> t, symbol |-> sym,
                        result |-> None]
            /\ UNCHANGED <<pc, locals>>
       ELSE /\ pc' = [pc EXCEPT ![t] = "closing"]
            /\ locals' = [locals EXCEPT ![t].closing =
                  Some([symbol |-> sym, exit_price |-> Val(exit_1),
                        exit_reason |-> "manual_close",
                        reason |-> "MANUAL CLOSE",
                        trade |-> get_active_trade(active_trades, sym)])]
            /\ last' = [op |-> "close_read", thread |-> t, symbol |-> sym]
    /\ UNCHANGED <<active_trades, trade_history, score_history, next_id, clock,
                   tp_sent, status_sent, bootstrapped, deep_history, backfills>>

\* _check_trade finds the live price cp at or below the stop and calls
\* Database.close_trade, as far as its SELECT
TickCloseBegin(t, cp) ==
    /\ pc[t] = "monitor"
    /\ locals[t].tick # None
    /\ LET trade == Val(locals[t].tick) IN
       /\ trade.remaining_fraction > 0
       /\ stop_hit(cp, trade.current_stop_price)
       /\ locals' = [locals EXCEPT ![t].closing =
             Some([symbol |-> trade.symbol, exit_price |-> cp,
                   exit_reason |-> "stop_loss", reason |-> "STOP LOSS HIT",
                   trade |-> get_active_trade(active_trades, trade.symbol)])]
       /\ last' = [op |-> "close_read", thread |-> t, symbol |-> trade.symbol]
    /\ pc' = [pc EXCEPT ![t] = "closing"]
    /\ notes' = <<>>
    /\ UNCHANGED <<active_trades, trade_history, score_history, next_id, clock,
                   tp_sent, status_sent, bootstrapped, deep_history, backfills>>

\* The rest of Database.close_trade, on the row its SELECT returned: the
\* INSERT into trade_history, the DELETE and the commit; then the caller
\* notifies the sinks of a result
CloseEnd(t) ==
    /\ pc[t] = "closing"
    /\ LET cl == Val(locals[t].closing) IN
       IF cl.trade = None
       THEN /\ notes' = <<>>
            /\ last' = [op |-> "closed", thread |-> t, symbol |-> cl.symbol,
                        result |-> None]
            /\ UNCHANGED <<active_trades, trade_history>>
       ELSE LET c == close_trade_db({Val(cl.trade)}, trade_history, cl.symbol,
                                    cl.exit_price, cl.exit_reason, clock)
            IN /\ trade_history' = c.history
               /\ active_trades' = {r \in active_trades : r.symbol # cl.symbol}
               /\ notes' = <<[kind |-> "trade_closed", symbol |-> cl.symbol,
                              result |-> Val(c.result), reason |-> cl.reason]>>
               /\ last' = [op |-> "closed", thread |-> t, symbol |-> cl.symbol,
                           result |-> c.result]
    /\ pc' = [pc EXCEPT ![t] = IF locals[t].tick = None THEN "idle"
                                ELSE IF locals[t].trades = <<>> THEN "done"
                                ELSE "monitor"]
    /\ locals' = [locals EXCEPT ![t].closing = None, ![t].tick = None]
    /\ UNCHANGED <<score_history, next_id, clock, tp_sent, status_sent,
                   bootstrapped, deep_history, backfills>>

\* /close on the bot thread next to the trade monitor of run_continuous
ClosePrices == {93}
HoldPrices == {107}

NextClose ==
    /\ UNCHANGED steps
    /\ \/ \E raw \in RawSymbols,
             exit_p \in {None} \cup {Some(p) : p \in ExitPrices},
             live \in {None} \cup {Some(p) : p \in CloseLivePrices} :
             CloseBegin("bot", raw, exit_p, live)
       \/ \E t \in {"loop", "bot"} : CloseEnd(t)
       \/ MonitorOnly("loop")
       \/ TickBegin("loop")
       \/ \E p \in HoldPrices : TickEnd("loop", Some(p), TRUE)
       \/ \E p \in ClosePrices : TickCloseBegin("loop", p)
       \/ Return("loop")

SpecClose == InitScan /\ [][NextClose]_vars

\* ------------------------------------------------- /adjust between ticks
\* Scanner.adjust_stop
AdjustStop(raw, price) ==
    LET sym == Upper(raw)
        t == get_active_trade(active_trades, sym)
    IN
    /\ IF t # None
       THEN /\ active_trades' = update_trade(active_trades, sym,
                                             [current_stop_price |-> price])
            /\ notes' = <<[kind |-> "stop_update", symbol |-> sym,
                           new_stop_price |-> price,
                           new_stop_pct |-> ((price - Val(t).entry_price) * 100)
                                            \div Val(t).entry_price,
                           current_price |-> Some(0), reason |-> "Manual"]>>
       ELSE /\ notes' = <<>>
            /\ UNCHANGED active_trades
    /\ last' = [op |-> "adjust_stop", symbol |-> sym, price |-> price]
    /\ UNCHANGED <<trade_history, score_history, next_id, clock, tp_sent,
                   status_sent>>

AdjustLivePrices == {107, 115, 135}
AdjustStops == {90, 112}

\* The trade monitor next to the /adjust command
NextAdjust ==
    /\ steps < MaxSteps
    /\ steps' = steps + 1
    /\ UNCHANGED scan_vars
    /\ \/ \E raw \in RawSymbols, ep \in EntryPrices, ps \in Sizes, sl \in StopPcts :
             AddTrade(raw, ep, ps, sl)
       \/ \E trade \in active_trades, cp \in {None} \cup {Some(p) : p \in AdjustLivePrices} :
             MonitorTick(trade, cp)
       \/ \E raw \in RawSymbols, price \in AdjustStops : AdjustStop(raw, price)

SpecAdjust == Init /\ [][NextAdjust]_vars

\* ================================================================ claims
\* The notifications of kind k sent by the last operation
NotesOf(ns, k) == {i \in 1..Len(ns) : ns[i].kind = k}

\* The number of take-profit flags set in row r
HitCount(r) == r.tp1_hit + r.tp2_hit + r.tp3_hit + r.tp4_hit

\* C1: every open trade has remaining_fraction = 1 - 0.25 x (number of
\* tpN_hit flags set), also when one tick crosses several thresholds.
C1_RemainingMatchesFlags ==
    \A r \in active_trades :
        r.remaining_fraction = FracOne - 25 * HitCount(r)

\* C2: every open trade has 0 <= remaining_fraction <= 1, and the
\* remaining_fraction of a trade never increases from one step to the next.
C2_RemainingBounded ==
    [][ /\ \A q \in active_trades' :
              0 <= q.remaining_fraction /\ q.remaining_fraction <= FracOne
        /\ \A r \in active_trades : \A q \in active_trades' :
              q.id = r.id => q.remaining_fraction <= r.remaining_fraction
      ]_vars

\* C2 witness: three ticks have each sold a quarter of one trade
C2_Witness ==
    /\ last.op = "tick"
    /\ \E r \in active_trades : r.id = last.id /\ r.remaining_fraction = 25

\* C3: a monitor tick on a trade registered with a positive stop_loss_pct
\* leaves current_stop_price unchanged or writes a strictly higher value,
\* and sends a stop-update notification exactly when it raises it.
C3_StopRatchet ==
    [][ last'.op = "tick" =>
          \A r \in active_trades :
            (r.id = last'.id /\ r.stop_loss_pct > 0) =>
              LET after == {q \in active_trades' : q.id = r.id}
                  raised == \E q \in after :
                               q.current_stop_price > r.current_stop_price
                  sent == \E i \in NotesOf(notes', "stop_update") :
                               notes'[i].symbol = r.symbol
              IN /\ \A q \in after :
                        q.current_stop_price >= r.current_stop_price
                 /\ sent <=> raised
                 /\ Cardinality(NotesOf(notes', "stop_update")) <= 1
      ]_vars

\* C3 witness: a tick has ratcheted a stop that an earlier tick had
\* already ratcheted, and has sent the stop update
C3_Witness ==
    /\ last.op = "tick"
    /\ NotesOf(notes, "stop_update") # {}
    /\ \E r \in active_trades :
          /\ r.id = last.id
          /\ r.tp1_hit = 1 /\ r.realized_pnl = 1250
          /\ r.current_stop_price = 118

\* C4: a monitor tick never clears a tpN_hit flag of a trade that stays
\* open, and a take-profit level fires (sets its flag from 0 to 1 and sends
\* its TP-hit notification) at most once per trade.
C4_TakeProfitOnce ==
    [][ last'.op = "tick" =>
          /\ \A r \in active_trades : \A q \in active_trades' :
                q.id = r.id =>
                   \A l \in 1..4 : q[TpKey(l)] >= r[TpKey(l)]
          /\ \A i \in NotesOf(notes', "tp_hit") :
                /\ <<notes'[i].id, notes'[i].tp_level>> \notin tp_sent
                /\ \A j \in NotesOf(notes', "tp_hit") :
                      notes'[j].tp_level = notes'[i].tp_level => j = i
                /\ \E r \in active_trades : \E q \in active_trades' :
                      /\ r.id = notes'[i].id /\ q.id = r.id
                      /\ r[TpKey(notes'[i].tp_level)] = 0
                      /\ q[TpKey(notes'[i].tp_level)] = 1
      ]_vars

\* C4 witness: a tick at +35% on a trade whose first two levels had fired
\* fires nothing
C4_Witness ==
    /\ last.op = "tick"
    /\ last.price = Some(135)
    /\ NotesOf(notes, "tp_hit") = {}
    /\ \E r \in active_trades :
          /\ r.id = last.id /\ r.entry_price = 100
          /\ r.tp1_hit = 1 /\ r.tp2_hit = 1
          /\ {<<r.id, 1>>, <<r.id, 2>>} \subseteq tp_sent

\* C5: a monitor tick whose live price is <= current_stop_price closes the
\* trade with exit_reason stop_loss at the live price and runs no
\* take-profit, trail, degradation or status step; the closed trade is
\* gone from the active table and its row never comes back, so that no
\* later tick acts on it.
C5_StopLossTerminal ==
    [][ /\ \A q \in active_trades' :
              q.id = next_id \/ \E r \in active_trades : r.id = q.id
        /\ last'.op = "tick" => \E r \in active_trades : r.id = last'.id
        /\ (last'.op = "tick" /\ last'.price # None) =>
             \A r \in active_trades :
               (r.id = last'.id /\ Val(last'.price) <= r.current_stop_price) =>
                  /\ active_trades' = active_trades \ {r}
                  /\ Len(trade_history') = Len(trade_history) + 1
                  /\ SubSeq(trade_history', 1, Len(trade_history)) = trade_history
                  /\ LET h == trade_history'[Len(trade_history')]
                     IN /\ h.symbol = r.symbol
                        /\ h.exit_reason = "stop_loss"
                        /\ h.exit_price = Val(last'.price)
                  /\ Len(notes') = 1
                  /\ notes'[1].kind = "trade_closed"
                  /\ notes'[1].reason = "STOP LOSS HIT"
      ]_vars

\* C5 witness: a tick at the ratcheted stop of a trade has stopped it out
C5_Witness ==
    /\ last.op = "tick"
    /\ last.price = Some(107)
    /\ active_trades = {}
    /\ Len(trade_history) = 1
    /\ trade_history[1].exit_reason = "stop_loss"
    /\ trade_history[1].exit_price = 107

\* C6: a monitor tick for which no live price is found changes neither the
\* active-trade rows nor the trade history and sends no notification.
C6_NoPriceNoChange ==
    [][ (last'.op = "tick" /\ last'.price = None) =>
          /\ active_trades' = active_trades
          /\ trade_history' = trade_history
          /\ tp_sent' = tp_sent
          /\ notes' = <<>>
      ]_vars

\* C6 witness: a tick without a price on a trade that has a stored score
\* to compare and is due its first hourly status
C6_Witness ==
    /\ last.op = "tick"
    /\ last.price = None
    /\ \E r \in active_trades :
          /\ r.id = last.id
          /\ get_latest_score(score_history, r.symbol) # None
          /\ clock - r.entry_timestamp >= 2
          /\ MetaGet(r.metadata, "last_status_hour", -1) = -1

\* C7: every step that appends to trade_history appends exactly one row,
\* for a trade that was open and is removed from the active table, and the
\* row's total PnL is realized_pnl + remaining_fraction x size x
\* (exit - entry) / entry; close_trade with an exit price on an open trade
\* is such a step and returns that PnL; close_trade on a symbol with no
\* open trade returns no result and changes neither table.
C7_CloseAppendsOneRow ==
    [][ /\ Len(trade_history') >= Len(trade_history)
        /\ SubSeq(trade_history', 1, Len(trade_history)) = trade_history
        /\ Len(trade_history') > Len(trade_history) =>
             /\ Len(trade_history') = Len(trade_history) + 1
             /\ LET h == trade_history'[Len(trade_history')]
                IN \E r \in active_trades :
                     /\ r.symbol = h.symbol
                     /\ active_trades' = active_trades \ {r}
                     /\ h.entry_price = r.entry_price
                     /\ h.position_size_usd = r.position_size_usd
                     /\ (h.realized_pnl - r.realized_pnl) * FracOne * r.entry_price
                          = r.remaining_fraction * r.position_size_usd
                              * (h.exit_price - r.entry_price)
        /\ (last'.op = "close_trade" /\ last'.exit # None) =>
             IF \E r \in active_trades : r.symbol = last'.symbol
             THEN /\ Len(trade_history') = Len(trade_history) + 1
                  /\ LET h == trade_history'[Len(trade_history')]
                     IN /\ h.symbol = last'.symbol
                        /\ h.exit_price = Val(last'.exit)
                        /\ h.exit_reason = "manual_close"
                        /\ last'.result # None
                        /\ Val(last'.result).total_pnl = h.realized_pnl
             ELSE /\ last'.result = None
                  /\ active_trades' = active_trades
                  /\ trade_history' = trade_history
      ]_vars

\* C7 witness: a trade entered at 100 with size 10000 took its first profit
\* at 115 and is closed by hand at 120: 375 + 0.75 x 10000 x 0.20
C7_Witness ==
    /\ last.op = "close_trade"
    /\ last.result # None
    /\ Val(last.result).total_pnl = 1875
    /\ Val(last.result).exit_price = 120
    /\ active_trades = {}
    /\ Len(trade_history) = 1

\* C8: right after add_trade(symbol, entry, size, stop_pct),
\* get_active_trade(symbol) returns that entry_price, position_size_usd and
\* stop_loss_pct, current_stop_price = entry x (1 - stop_pct / 100) (93 for
\* entry 100 and stop 7%), remaining_fraction 1, realized_pnl 0 and the
\* four hit flags 0.
C8_AddRoundTrip ==
    last.op = "add_trade" =>
      LET got == get_active_trade(active_trades, last.symbol) IN
      /\ got # None
      /\ Val(got).entry_price = last.entry_price
      /\ Val(got).position_size_usd = last.position_size_usd
      /\ Val(got).stop_loss_pct = last.stop_loss_pct
      /\ Val(got).current_stop_price * 100
            = last.entry_price * (100 - last.stop_loss_pct)
      /\ (last.entry_price = 100 /\ last.stop_loss_pct = 7) =>
            Val(got).current_stop_price = 93
      /\ Val(got).remaining_fraction = FracOne
      /\ Val(got).realized_pnl = 0
      /\ HitCount(Val(got)) = 0

\* C8 witness: add_trade at entry 200 with a 7% stop, read back at 186
C8_Witness ==
    /\ last.op = "add_trade"
    /\ last.entry_price = 200
    /\ \E r \in active_trades :
          r.symbol = last.symbol /\ r.current_stop_price = 186

\* C9: the active table never holds two trades of one symbol; add_trade for
\* a symbol that has an open trade replaces it by a fresh trade
\* (remaining_fraction 1, realized_pnl 0, flags 0, initial stop), leaves
\* the other symbols' trades alone and appends nothing to trade_history.
C9_OnePerSymbol ==
    [][ /\ \A q1 \in active_trades' : \A q2 \in active_trades' :
              q1.symbol = q2.symbol => q1 = q2
        /\ (last'.op = "add_trade"
              /\ \E r \in active_trades : r.symbol = last'.symbol) =>
             /\ trade_history' = trade_history
             /\ {q \in active_trades' : q.symbol # last'.symbol}
                   = {r \in active_trades : r.symbol # last'.symbol}
             /\ \A q \in active_trades' :
                  q.symbol = last'.symbol =>
                     /\ q.id = next_id
                     /\ q.remaining_fraction = FracOne
                     /\ q.realized_pnl = 0
                     /\ HitCount(q) = 0
                     /\ q.last_notified_stop_pct = 0
                     /\ q.current_stop_price * 100
                           = last'.entry_price * (100 - last'.stop_loss_pct)
      ]_vars

\* C9 witness: add_trade has replaced a trade that had taken two profits
C9_Witness ==
    /\ last.op = "add_trade"
    /\ {<<1, 1>>, <<1, 2>>} \subseteq tp_sent
    /\ trade_history = <<>>
    /\ \E r \in active_trades :
          r.id = 2 /\ r.symbol = last.symbol /\ Cardinality(active_trades) = 1

\* C10: a monitor tick with gain g that does not stop the trade out moves
\* the stop to entry x (1 + stop_at_pct / 100) of the highest rung whose
\* price-move trigger is <= g and whose stop_at_pct exceeds
\* last_notified_stop_pct, and leaves the stop alone when there is no such
\* rung; for entry 100, size 10000, stop 7% a first tick at 115 fires TP1
\* with realized_pnl 375 and remaining_fraction 0.75, and a later tick at
\* 135 leaves the stop at or above 100.
C10_TrailHighestRung ==
    [][ (last'.op = "tick" /\ last'.price # None) =>
          \A r \in active_trades :
            (r.id = last'.id /\ Val(last'.price) > r.current_stop_price) =>
              LET cp == Val(last'.price)
                  ep == r.entry_price
                  elig == {i \in 1..Len(STOP_LOSS_TRAIL) :
                             /\ STOP_LOSS_TRAIL[i].price_move_pct * ep
                                   <= (cp - ep) * 100
                             /\ STOP_LOSS_TRAIL[i].stop_at_pct
                                   > r.last_notified_stop_pct}
                  scenario == /\ ep = 100
                              /\ r.position_size_usd = 10000
                              /\ r.stop_loss_pct = 7
              IN \E q \in active_trades' :
                   /\ q.id = r.id
                   /\ IF elig # {}
                      THEN LET top == CHOOSE i \in elig : \A j \in elig : j <= i
                           IN /\ q.current_stop_price * 100
                                   = ep * (100 + STOP_LOSS_TRAIL[top].stop_at_pct)
                              /\ q.last_notified_stop_pct
                                   = STOP_LOSS_TRAIL[top].stop_at_pct
                      ELSE /\ q.current_stop_price = r.current_stop_price
                           /\ q.last_notified_stop_pct = r.last_notified_stop_pct
                   /\ (scenario /\ HitCount(r) = 0 /\ r.realized_pnl = 0
                         /\ cp = 115) =>
                        /\ q.tp1_hit = 1 /\ q.tp2_hit = 0
                        /\ q.realized_pnl = 375
                        /\ q.remaining_fraction = 75
                   /\ (scenario /\ r.tp1_hit = 1 /\ r.realized_pnl = 375
                         /\ cp = 135) =>
                        q.current_stop_price >= 100
      ]_vars

\* C10 witness: the scenario's two ticks, at 115 and then at 135
C10_Witness ==
    /\ last.op = "tick"
    /\ last.price = Some(135)
    /\ \E r \in active_trades :
          /\ r.id = last.id
          /\ r.entry_price = 100 /\ r.position_size_usd = 10000
          /\ r.realized_pnl = 1250 /\ r.remaining_fraction = 50
          /\ r.last_notified_stop_pct = 18
          /\ r.current_stop_price = 118

\* C11: a tick that reaches the degradation step sends a signal-degradation
\* alert whenever the latest persisted composite score of the symbol is at
\* least 20 points below the trade's stored last_score, a drop of exactly 20
\* points included.
C11_DegradationAtTwenty ==
    [][ (last'.op = "tick" /\ last'.price # None) =>
          \A r \in active_trades :
            LET latest == get_latest_score(score_history, r.symbol) IN
            ( /\ r.id = last'.id
              /\ r.remaining_fraction > 0
              /\ Val(last'.price) > r.current_stop_price
              /\ latest # None
              /\ Val(latest).composite_score <= r.last_score - 20 * ScoreOne ) =>
                NotesOf(notes', "signal_degradation") # {}
      ]_vars

\* C12: a status notification is sent only for a whole hour h >= 1 since
\* entry, at most once per trade and hour over any sequence of ticks and at
\* most one per tick, and the last_status_hour marker of a trade never
\* decreases.
C12_StatusOncePerHour ==
    [][ /\ last'.op = "tick" =>
             /\ Cardinality(NotesOf(notes', "trade_status")) <= 1
             /\ \A i \in NotesOf(notes', "trade_status") :
                   /\ notes'[i].hours_in >= 1
                   /\ <<last'.id, notes'[i].hours_in>> \notin status_sent
                   /\ \E r \in active_trades :
                         /\ r.id = last'.id
                         /\ notes'[i].hours_in * 2 <= clock - r.entry_timestamp
                         /\ clock - r.entry_timestamp < (notes'[i].hours_in + 1) * 2
        /\ \A r \in active_trades : \A q \in active_trades' :
              q.id = r.id =>
                 MetaGet(q.metadata, "last_status_hour", -1)
                    >= MetaGet(r.metadata, "last_status_hour", -1)
      ]_vars

\* C12 witness: a second tick within the first elapsed hour of a trade,
\* after the status of that hour was sent, has sent none
C12_Witness ==
    /\ last.op = "tick"
    /\ last.price # None
    /\ NotesOf(notes, "trade_status") = {}
    /\ <<last.id, 1>> \in status_sent
    /\ \E r \in active_trades :
          /\ r.id = last.id
          /\ clock - r.entry_timestamp = 3
          /\ MetaGet(r.metadata, "last_status_hour", -1) = 1

\* C20: in every ScoreResult returned by score(), classification is the
\* threshold ladder (78 / 62 / 48 / 33) applied to the composite_score that
\* the result reports.
C20_ClassOfReportedScore ==
    last.op = "score" =>
        last.result.classification = classify_score(last.result.composite_score)

\* The results that _scan_token has returned to thread t in this cycle
ScannedOf(t) ==
    {Val(locals[t].scanned[tok]) :
        tok \in {k \in TokenSet : locals[t].scanned[k] # None}}

\* The results of ScannedOf(t) that meet the alert-score threshold
MeetingThreshold(t) ==
    {r \in ScannedOf(t) : r.composite_score >= alert_threshold * ScoreOne}

\* The sink calls of _send_alerts for the first n entries of rs
RECURSIVE CallsFor(_, _)
CallsFor(rs, n) ==
    IF n = 0 THEN <<>> ELSE CallsFor(rs, n - 1) \o sink_calls(rs[n])

\* C13: once the alert dispatch of a scan cycle has finished, every event
\* that detect_events returned for a token of the cycle has been sent to the
\* sinks, whatever the token's classification and whether or not its
\* composite score meets the alert-score threshold.
C13_EveryEventDispatched ==
    \A t \in Threads :
        pc[t] \in {"monitor", "done"} =>
            \A r \in ScannedOf(t) : \A i \in 1..Len(r.events) :
                \E j \in 1..Len(locals[t].sent) :
                    locals[t].sent[j] = [kind |-> "event", event |-> r.events[i]]

\* C14: a sink that raises does not abort the cycle: run_once is never left
\* by an exception during the alert dispatch, and a tick in which a sink
\* raises leaves the active trades as the same tick with working sinks
\* does (the trail, degradation and status steps still run).
C14_SinkFailureContained ==
    [][ /\ \A t \in Threads : pc'[t] # "aborted"
        /\ \A t \in Threads :
              (locals[t].tick # None /\ locals'[t].tick = None) =>
                 active_trades' =
                    check_trade(active_trades, trade_history, score_history,
                                Val(locals[t].tick), last'.price, clock).active
      ]_vars

\* C15: a token whose pipeline raised is not in the cycle's results, every
\* other token is still scanned and, when it meets the threshold, is in the
\* results, and the cycle is never left by an exception before the alert
\* dispatch.
C15_TokenFailureContained ==
    /\ [](\A t \in Threads : \A tok \in TokenSet :
            /\ locals[t].kinds[tok] \in {"collect_raises", "events_raise"} =>
                  /\ locals[t].scanned[tok] = None
                  /\ \A i \in 1..Len(locals[t].results) :
                        locals[t].results[i].symbol # tok
            /\ locals[t].kinds[tok] = "ok" =>
                  /\ locals[t].scanned[tok] # None
                  /\ Val(locals[t].scanned[tok]) \in MeetingThreshold(t) =>
                        \E i \in 1..Len(locals[t].results) :
                            locals[t].results[i] = Val(locals[t].scanned[tok]))
    /\ [][ \A t \in Threads :
             /\ pc'[t] = "aborted" => pc[t] = "dispatch"
             /\ (pc[t] = "pool" /\ pc'[t] # "pool") =>
                   /\ pc'[t] = "dispatch"
                   /\ \A tok \in TokenSet : locals[t].tasks[tok] = "done"
         ]_vars

\* C15 witness: a cycle in which the pipeline of BTC raised after scoring
\* has alerted on ETH and has gone through the trade monitor
C15_Witness ==
    /\ pc["loop"] = "done"
    /\ locals["loop"].kinds["BTC"] = "events_raise"
    /\ locals["loop"].kinds["ETH"] = "ok"
    /\ Len(locals["loop"].results) = 1
    /\ locals["loop"].results[1].symbol = "ETH"
    /\ locals["loop"].sent # <<>>
    /\ last.op = "tick"

\* C16: bootstrap_token runs to completion at most once per symbol, across
\* successive cycles and when the loop's run_once and the run_once of a
\* /scan thread overlap.
C16_BootstrapOnce ==
    \A tok \in TokenSet : backfills[tok] <= 1

\* C17: no two threads are inside _check_trade for the same symbol at the
\* same time.
C17_NoConcurrentTicks ==
    \A t1 \in Threads : \A t2 \in Threads \ {t1} :
        (locals[t1].tick # None /\ locals[t2].tick # None) =>
            Val(locals[t1].tick).symbol # Val(locals[t2].tick).symbol

\* C18: within one cycle no token task exists before the bootstrap backfill
\* has finished, the alert dispatch starts only when every submitted task
\* has completed, and the trade monitor starts only when the dispatch has
\* gone through every result.
C18_PhasesInOrder ==
    \A t \in Threads :
        LET l == locals[t]
            submitted == \E tok \in TokenSet : l.tasks[tok] # "none"
        IN /\ (pc[t] \in {"check", "backfill"} \/ l.need # <<>>) => ~submitted
           /\ (pc[t] \in {"dispatch", "aborted"} \/ l.sent # <<>>) =>
                 \A tok \in TokenSet : l.tasks[tok] = "done"
           /\ (pc[t] = "monitor" \/ l.tick # None \/ l.trades # <<>>) =>
                 /\ l.next > Len(l.results)
                 /\ l.sent = CallsFor(l.results, Len(l.results))
                 /\ submitted => \A tok \in TokenSet : l.tasks[tok] = "done"

\* C18 witness: a cycle that backfilled BTC and sent alerts is inside a
\* monitor tick
C18_Witness ==
    /\ pc["loop"] = "monitor"
    /\ locals["loop"].tick # None
    /\ locals["loop"].sent # <<>>
    /\ backfills["BTC"] = 1
    /\ \A tok \in TokenSet : locals["loop"].tasks[tok] = "done"

\* C19: from the sort on, the results of run_once (the list handed to
\* _send_alerts and returned) hold exactly the scanned tokens whose
\* composite_score is >= the alert-score threshold, in descending order of
\* composite_score whatever the completion order of the tasks, and the
\* sinks are called for them in that order.
C19_ResultsFilteredSorted ==
    \A t \in Threads :
        pc[t] \in {"dispatch", "aborted", "monitor", "done"} =>
            LET rs == locals[t].results IN
            /\ Len(rs) = Cardinality(MeetingThreshold(t))
            /\ \A r \in MeetingThreshold(t) : \E i \in 1..Len(rs) : rs[i] = r
            /\ \A i \in 1..Len(rs) : \A j \in 1..Len(rs) :
                  i < j => rs[i].composite_score >= rs[j].composite_score
            /\ locals[t].sent = CallsFor(rs, locals[t].next - 1)

\* C19 witness: ETH (48.0) completed before BTC (78.0) and the cycle has
\* ended with BTC ahead of ETH
C19_Witness ==
    /\ pc["loop"] = "done"
    /\ locals["loop"].completed = <<"ETH", "BTC">>
    /\ Len(locals["loop"].results) = 2
    /\ locals["loop"].results[1].symbol = "BTC"
    /\ locals["loop"].results[1].composite_score = 78 * ScoreOne
    /\ locals["loop"].results[2].symbol = "ETH"
    /\ locals["loop"].results[2].composite_score = 48 * ScoreOne
    /\ Len(locals["loop"].sent) = 8
\* C21: score() is monotonic in each single signal: when one normalized
\* score is raised and the other eight and price_change_7d stay, neither the
\* reported composite score nor the persisted one goes down; and every
\* composite score, reported or persisted, lies in [0, 100].
C21_ScoreMonotonicBounded ==
    /\ \A i \in 1..Len(score_history) :
          /\ score_history[i].composite_score >= 0
          /\ score_history[i].composite_score <= 100 * ScoreOne
    /\ last.op \in {"score", "rescore"} =>
          /\ last.result.composite_score >= 0
          /\ last.result.composite_score <= 100 * ScoreOne
    /\ last.op = "rescore" =>
          /\ last.result.composite_score >= last.before.composite_score
          /\ LET n == Len(score_history) IN
             score_history[n].composite_score >= score_history[n - 1].composite_score

\* One signal has risen across the min_score of a bonus: the cascade bonus
\* has come on and the composite score has gone up
C21_Witness ==
    /\ last.op = "rescore"
    /\ last.raised = "funding_rate"
    /\ last.before.bonus_total = 0
    /\ last.result.bonus_total = 30
    /\ last.result.composite_score > last.before.composite_score

\* The events of type ty in a returned result
EventsOfType(r, ty) == {i \in 1..Len(r.events) : r.events[i].type = ty}

\* C22: whenever the current price is at least 5% above the first valid
\* ticker of the 6-hour window and the reported composite score is >= 48,
\* the events of the token contain IGNITION, whatever previous score is
\* stored for the symbol, and also when none is.
C22_IgnitionIndependent ==
    (/\ last.op = "scan_token"
     /\ last.result # None
     /\ last.data.current_price > 0
     /\ last.data.first_ticker # None) =>
        ((/\ GainAtLeast(last.data.current_price, Val(last.data.first_ticker), 5)
          /\ Val(last.result).composite_score >= 48 * ScoreOne)
         => EventsOfType(Val(last.result), "IGNITION") # {})

\* C23: a token pipeline appends exactly one score_history row and leaves
\* the rows before it as they were, and its SCORE_JUMP and UPGRADE events
\* compare the result with the row that the symbol's preceding score() call
\* wrote, never with the row just written.
C23_AppendsAndComparesPreceding ==
    [][last'.op = "scan_token" =>
        /\ Len(score_history') = Len(score_history) + 1
        /\ SubSeq(score_history', 1, Len(score_history)) = score_history
        /\ score_history'[Len(score_history')].symbol = last'.symbol
        /\ LET res == Val(last'.result)
               mine == {i \in 1..Len(score_history) :
                           score_history[i].symbol = last'.symbol}
               jumps == EventsOfType(res, "SCORE_JUMP")
               upgrades == EventsOfType(res, "UPGRADE")
           IN IF mine = {}
              THEN jumps = {} /\ upgrades = {}
              ELSE LET p == score_history[CHOOSE i \in mine :
                                             \A j \in mine : j <= i]
                   IN /\ jumps # {} <=>
                           res.composite_score - p.composite_score
                               >= 15 * ScoreOne
                      /\ \A i \in jumps :
                           res.events[i].previous_score = p.composite_score
                      /\ upgrades # {} <=>
                           class_index(res.classification)
                               > class_index(p.classification)
                      /\ \A i \in upgrades :
                           res.events[i].from_class = p.classification
    ]_vars

\* The third pipeline of a symbol scores 48.0 after 78.0 and then 20.0: the
\* jump is measured from 20.0
C23_Witness ==
    /\ last.op = "scan_token"
    /\ Len(score_history) = 3
    /\ \A i \in 1..3 : score_history[i].symbol = "BTC"
    /\ score_history[1].composite_score = 78 * ScoreOne
    /\ score_history[2].composite_score = 20 * ScoreOne
    /\ score_history[3].composite_score = 48 * ScoreOne
    /\ \E i \in EventsOfType(Val(last.result), "SCORE_JUMP") :
          Val(last.result).events[i].previous_score = 20 * ScoreOne

\* C24: the stop that the levels calculator returns lies inside the band,
\* 2.5% <= (price - stop.price) / price <= 15%, hence below the price.
C24_StopInBand ==
    last.op = "levels" =>
        LET price == last.result.price
            stop == last.result.stop.price
        IN /\ (price - stop) * 1000 >= MIN_STOP_PCT * price
           /\ (price - stop) * 1000 <= MAX_STOP_PCT * price
           /\ stop < price

\* C25: the three take-profit prices of a LevelsResult are strictly
\* increasing and keep the minimum spacing, TP2 >= 1.05 x TP1 and
\* TP3 >= 1.05 x TP2, also when TP1 was raised to the risk/reward floor.
C25_TakeProfitsSpaced ==
    last.op = "levels" =>
        LET tp == last.result.take_profits
        IN /\ tp[1].price < tp[2].price
           /\ tp[2].price < tp[3].price
           /\ tp[2].price * 100 >= tp[1].price * 105
           /\ tp[3].price * 100 >= tp[2].price * 105

\* C26: on breakpoints with increasing x and non-decreasing y,
\* piecewise_lerp returns y_i at every breakpoint x_i, the first y below the
\* first breakpoint and the last y above the last one, and of two calls on
\* the same breakpoints the one with the larger input does not return less.
C26_LerpMonotonicExact ==
    /\ [](last.op = "lerp" =>
            LET bp == last.breakpoints
                n == Len(bp)
            IN /\ \A i \in 1..n :
                    last.value = bp[i][1] => last.result = bp[i][2] * LerpOne
               /\ last.value < bp[1][1] => last.result = bp[1][2] * LerpOne
               /\ last.value > bp[n][1] => last.result = bp[n][2] * LerpOne)
    /\ [][(/\ last.op = "lerp"
           /\ last'.op = "lerp"
           /\ last'.breakpoints = last.breakpoints
           /\ last'.value >= last.value)
          => last'.result >= last.result]_vars

\* An input strictly between two breakpoints whose result lies strictly
\* between their y
C26_Witness ==
    /\ last.op = "lerp"
    /\ \E i \in 1..(Len(last.breakpoints) - 1) :
          /\ last.breakpoints[i][1] < last.value
          /\ last.value < last.breakpoints[i + 1][1]
          /\ last.breakpoints[i][2] * LerpOne < last.result
          /\ last.result < last.breakpoints[i + 1][2] * LerpOne

\* C27: a tick that sees a gain of at least 5% and less than 10% on a
\* trade whose stop is still its initial stop applies the first rung of the
\* trail ladder: the stop moves to the entry price and a stop update is
\* sent.
C27_BreakEvenRung ==
    [][ (last'.op = "tick" /\ last'.price # None) =>
          \A r \in active_trades :
            (/\ r.id = last'.id
             /\ r.current_stop_price = stop_price(r.entry_price, r.stop_loss_pct)
             /\ r.last_notified_stop_pct = 0
             /\ GainAtLeast(Val(last'.price), r.entry_price, 5)
             /\ ~GainAtLeast(Val(last'.price), r.entry_price, 10)) =>
              /\ \E q \in active_trades' :
                    /\ q.id = r.id
                    /\ q.current_stop_price = q.entry_price
              /\ \E i \in NotesOf(notes', "stop_update") :
                    notes'[i].symbol = r.symbol
      ]_vars

\* C28: monitor ticks never set tp4_hit and never take remaining_fraction
\* below 0.25, no trade is closed as fully_exited, and a row leaves the
\* active table only by a stop_loss close of its tick, by a manual close or
\* by an add_trade on its symbol.
C28_FourthLevelNeverFires ==
    /\ [](/\ \A r \in active_trades :
                r.tp4_hit = 0 /\ r.remaining_fraction >= 25
          /\ \A i \in 1..Len(trade_history) :
                trade_history[i].exit_reason \in {"stop_loss", "manual_close"})
    /\ [][\A r \in active_trades :
            (~ \E q \in active_trades' : q.id = r.id) =>
               LET closed_as(reason) ==
                      /\ Len(trade_history') = Len(trade_history) + 1
                      /\ trade_history'[Len(trade_history')].symbol = r.symbol
                      /\ trade_history'[Len(trade_history')].exit_reason = reason
               IN \/ /\ last'.op = "tick"
                     /\ last'.id = r.id
                     /\ closed_as("stop_loss")
                  \/ /\ last'.op = "close_trade"
                     /\ last'.symbol = r.symbol
                     /\ closed_as("manual_close")
                  \/ /\ last'.op = "add_trade"
                     /\ last'.symbol = r.symbol
                     /\ trade_history' = trade_history
         ]_vars

\* A tick at +120% on a trade that has taken its three priced levels in
\* three earlier ticks: the fourth level stays unset and 0.25 remains
C28_Witness ==
    /\ last.op = "tick"
    /\ last.price = Some(220)
    /\ Len(notes) = 0
    /\ \E r \in active_trades :
          /\ r.id = last.id
          /\ r.entry_price = 100
          /\ r.tp3_hit = 1
          /\ r.tp4_hit = 0
          /\ r.remaining_fraction = 25

\* C29: when closes of one open trade interleave, exactly one
\* trade_history row is appended for the trade, and exactly one of the
\* closes returns a result and notifies the sinks.
C29_OneCloseWins ==
    /\ [](Len(trade_history) <= 1)
    /\ [][(last'.op = "closed" /\ last'.result # None) =>
             /\ trade_history = <<>>
             /\ Cardinality(NotesOf(notes', "trade_closed")) = 1
         ]_vars

\* C30: a monitor tick never lowers current_stop_price, also after a
\* manual adjust_stop has set it above the next ladder rung; adjust_stop
\* changes current_stop_price only.
C30_StopNeverLowered ==
    [][ /\ last'.op = "tick" =>
             \A r \in active_trades : \A q \in active_trades' :
                (r.id = last'.id /\ q.id = r.id) =>
                   q.current_stop_price >= r.current_stop_price
        /\ last'.op = "adjust_stop" =>
             /\ \A q \in active_trades' : \E r \in active_trades :
                   q = [r EXCEPT !.current_stop_price = q.current_stop_price]
             /\ Cardinality(active_trades') = Cardinality(active_trades)
             /\ trade_history' = trade_history
      ]_vars

====
